---------------------------- MODULE Spec2Model ----------------------------
(***************************************************************************)
(* A model of the install-convergence engine of debian_crossgrader:        *)
(*   - utils/cmd.py      tee_process (the process output multiplexer)      *)
(*   - crossgrader.py    get_dpkg_failures (the failure parser),           *)
(*                       _install_and_configure (one pass),                *)
(*                       _install_configure_loop (the convergence loop).   *)
(*                                                                         *)
(* Three specifications share the module:                                  *)
(*   SpecTee / SpecTeeFair  one run of tee_process against a child that    *)
(*                          writes to its two streams and exits;           *)
(*   SpecParser             get_dpkg_failures applied to bounded streams;  *)
(*   Spec                   _install_configure_loop, one action per phase  *)
(*                          of a pass, the captured stderr of each phase   *)
(*                          drawn from the bounded streams.                *)
(***************************************************************************)
EXTENDS Naturals, Sequences, FiniteSets

VARIABLES
    \* ---- tee_process (utils/cmd.py) ----
    process_outs,   \* the streams of the process that are pipes (not None)
    child,          \* "running" | "exited"
    child_want,     \* the stream the child is in a write() call on, or "none"
    exit_status,    \* the status the child exited with, None while it runs
    returncode,     \* Popen.returncode: None, or the exit status poll() has reaped
    written,        \* per stream: everything the child has written so far
    pipe,           \* per stream: the bytes sitting in the OS pipe
    output_bufs,    \* per stream: the text accumulated by write_contents
    read_fds,       \* select's result not yet read by write_contents
    has_data,       \* write_contents' data_read of the current round
    t_pc,           \* "select" | "write_contents" | "done"
    t_ret,          \* (exit_code, stdout, stderr) once tee_process returned
    \* ---- get_dpkg_failures applied to a whole captured stream ----
    dpkg_errs,      \* errs.splitlines(): the captured stderr, a sequence of lines
    files,          \* the regular files that exist when the stream is parsed
    parse_done,     \* get_dpkg_failures has run on dpkg_errs
    parsed,         \* its locals when it returned, or when its assert failed
    \* ---- _install_configure_loop / _install_and_configure ----
    pc,             \* where the loop is; the terminal values name the outcome
    disk,           \* the .deb files that exist on disk
    debs_to_install,\* the argument of _install_configure_loop
    debs_remaining, \* artifacts still to retry
    loop_count,
    failed_debs,    \* of the current pass
    failed_packages,\* of the current pass; None before the first pass
    violation,      \* history: the line just read, in the error list, ends
                    \* with .deb and names no file
    n_lines,        \* lines of the phase's stderr read so far
    capture_packages, debs, packages,   \* get_dpkg_failures' locals
    result,         \* the value returned, or the payload of the exception raised
    pass_inputs,    \* history: the archives handed to dpkg -i, pass by pass
    all_failed_names, \* history: union of every pass's failed_packages
    \* ---- first_stage / second_stage, install_packages, _fix_dpkg_errors ----
    entry,          \* the stage that runs: "first" | "second"
    dry_run,        \* args.dry_run
    s_pc,           \* where the stage is; the terminal values name the outcome
    mutated,        \* history: an artifact fetch, or a pass of an earlier
                    \* install_packages call, has been executed in this run
    i_pc,           \* where install_packages is
    i_failed,       \* install_packages' failed_packages (line 541)
    r_pc,           \* where _fix_dpkg_errors is
    r_todo,         \* the packages the for loop of line 300 has yet to visit
    r_cur,          \* package of line 300, None outside the inner loop
    r_co,           \* the coinstalled packages the loop of line 316 has yet to visit
    r_codes,        \* the exit codes of the commands of lines 294, 345 and 350
    fix_result,     \* what _fix_dpkg_errors returned, None before
    ops,            \* history: the administrative commands the current (or
                    \* last) install_packages call has executed
    \* ---- one pass of _install_and_configure, its commands under tee_process ----
    p_pc,           \* the command that runs, or where the pass is after it
    p_install_child, \* history: child, as it was for dpkg -i when
                    \* dpkg --configure -a was started
    \* ---- the target classifier (utils/apt.py, list_first_stage_targets) ----
    apt_cache,      \* the packages apt knows, as apt.package.Package objects
    fullnames,      \* get_package_fullnames(): the name:architecture of dpkg's packages
    hook_glob,      \* glob('/usr/share/initramfs-tools/hooks/*')
    hook_query,     \* the lines of dpkg-query -S on the hooks directory
    shell_query,    \* the lines of dpkg-query -S on the login shells
    crossgrader,    \* the package 'crossgrader': known, installed, its dependencies
    ignore_initramfs_remnants,
    ignore_unavailable_targets,
    names,          \* the names handed to find_package_objs
    ignore_installed,
    c_done,         \* the function under study has been applied
    c_out,          \* what it returned or raised
    c_fn,           \* which of the two classifiers was called ("none" before)
    c_prev,         \* what the call before this one returned or raised, if any
    \* ---- main(): the Crossgrader object and the stage it runs (__main__.py) ----
    m_pc,           \* where main() is, or the exception that ended it
    stage,          \* the stage the arguments select
    args_dry_run,   \* --dry-run
    args_packages,  \* -p: the names given, as written
    foreign_arch,   \* --third-stage: the architecture to purge
    dpkg_archs,     \* the foreign architectures dpkg has been told of
    hook_functions, \* /usr/share/initramfs-tools/hook-functions, what it holds
    backup,         \* the backup of hook-functions in storage_dir exists
    storage_dir,    \* storage_dir exists
    purged,         \* the arguments of dpkg --purge, once it has been run
    changed,        \* history: what main() has done to the packages and debs
    \* ---- one pass of _install_and_configure, by the text of its stderr ----
    o_pc,           \* where the pass is, or the exception that ended it
    n_debs,         \* len(debs_to_install)
    errs_install,   \* the stderr dpkg -i will have written, line by line
    errs_configure, \* the stderr dpkg --configure -a will have written
    options,        \* history: the --abort-after of each command started
    o_failed_debs,  \* the local failed_debs
    o_failed_packages, \* the local failed_packages
    \* ---- _fix_dpkg_errors, command by command ----
    f_pc,           \* where _fix_dpkg_errors is, or the exception that ended it
    f_packages,     \* its argument: the names of the packages that failed
    dpkg_db,        \* the name:architecture dpkg-query -W lists
    ma_same,        \* the names whose dpkg -s status holds 'Multi-Arch: same'
    prerm_scripts,  \* the packages with a .prerm file in DPKG_INFO_DIR
    f_todo,         \* the packages the for loop of line 300 has yet to visit
    f_cur,          \* package of line 300, None outside the inner loop
    f_co,           \* the coinstalled packages the loop of line 316 has yet to visit
    f_log,          \* history: the removals, prompts and deletions, in order
    f_ret,          \* what _fix_dpkg_errors returned, None before
    \* ---- install_packages: the packages to mark as auto-installed ----
    auto_pkgs_list, \* what apt-mark showauto prints when install_packages starts
    mark_auto_pkgs, \* the local mark_auto_pkgs
    marked,         \* history: the arguments of apt-mark auto, None before it ran
    \* ---- the arch check hook, file by file ----
    functions_file, \* what INITRAMFS_FUNCTIONS_PATH holds, None when there is no file
    backup_file,    \* what initramfs_functions_backup_path holds, None when no file
    hook_series,    \* history: the create calls since the last remove, None if none
    hook_last       \* history: the last create or remove call, None before the first

tee_vars == <<process_outs, child, child_want, exit_status, returncode, written, pipe,
              output_bufs, read_fds, has_data, t_pc, t_ret>>

parser_vars == <<dpkg_errs, files, parse_done, parsed>>

loop_vars == <<pc, disk, debs_to_install, debs_remaining, loop_count, failed_debs,
               failed_packages, violation, n_lines, capture_packages, debs, packages,
               result, pass_inputs, all_failed_names>>

run_vars == <<entry, dry_run, s_pc, mutated>>

install_vars == <<i_pc, i_failed>>

fix_vars == <<r_pc, r_todo, r_cur, r_co, r_codes, fix_result>>

stage_vars == <<run_vars, install_vars, fix_vars, ops>>

pass_vars == <<p_pc, p_install_child>>

cls_vars == <<apt_cache, fullnames, hook_glob, hook_query, shell_query, crossgrader,
              ignore_initramfs_remnants, ignore_unavailable_targets, names,
              ignore_installed, c_done, c_out, c_fn, c_prev>>

main_vars == <<m_pc, stage, args_dry_run, args_packages, foreign_arch, dpkg_archs,
               hook_functions, backup, storage_dir, purged, changed>>

one_vars == <<o_pc, n_debs, errs_install, errs_configure, options, o_failed_debs,
              o_failed_packages>>

recover_vars == <<f_pc, f_packages, dpkg_db, ma_same, prerm_scripts, f_todo, f_cur, f_co,
                  f_log, f_ret>>

mark_vars == <<auto_pkgs_list, mark_auto_pkgs, marked>>

file_vars == <<functions_file, backup_file, hook_series, hook_last>>

rest_vars == <<one_vars, recover_vars, mark_vars, file_vars>>

aux_vars == <<pass_vars, cls_vars, main_vars, rest_vars>>

\* the variables of the components around the engine's three
other_vars == <<stage_vars, aux_vars>>

vars == <<tee_vars, parser_vars, loop_vars, other_vars>>

---------------------------------------------------------------------------
(* Bounds *)

\* capacity of an OS pipe, in bytes
PipeCap == 2
\* number of bytes the child writes over its life, at most
MaxWrites == 3
\* number of lines in the captured stderr of one dpkg command, at most
MaxLines == 3
\* number of .deb files that may be handed to the loop, at most
MaxDebs == 2

---------------------------------------------------------------------------
(* tee_process *)

Streams == {"stdout", "stderr"}

ExitCodes == {0, 1}

\* the architecture the system is crossgraded to, and the one it runs now
TargetArch == "arm64"
CurrentArch == "amd64"

\* Python's None, and a value that is not None, as values TLC can compare
None == <<>>
Some(x) == <<x>>
\* an exit status
Code(c) == <<c>>

NoRet == [exit_code |-> None, stdout |-> <<>>, stderr |-> <<>>]

\* number of bytes the child has written to both streams
TotalWritten == Len(written["stdout"]) + Len(written["stderr"])

\* select() reports a pipe readable when it holds data or when its write end
\* is closed (end of file: the child has exited)
Readable(s) == Len(pipe[s]) > 0 \/ child = "exited"

\* a parent that watches its first descriptor only
SelectReadyFirstOnly == {s \in process_outs : s = "stdout" /\ Readable(s)}

\* select.select(process_outs, [], [], 1): the ready ones among process_outs;
\* an empty result is the one-second timeout
SelectReady == {s \in process_outs : Readable(s)}

\* the for loop of write_contents visits the descriptors in list order,
\* stdout before stderr
FirstFd(fds) == IF "stdout" \in fds THEN "stdout" ELSE "stderr"

\* lines 73-74: the accumulated data of a stream, [] when the handle is None
Captured(s) == IF s \in process_outs THEN output_bufs[s] ELSE <<>>

append_Twice(buf, data) == buf \o data \o data

\* line 45: output_dict[child_fd.fileno()].append(data); the list is joined
\* at the return, so it is kept here as the joined text
append(buf, data) == buf \o data

\* a loop that ends with the first round that reads nothing
LoopExit_NoPoll == ~has_data

\* line 70: leave the loop when the process has exited and the round read nothing
LoopExit == returncode' # None /\ ~has_data

\* the values the variables of the other components keep in a specification
\* that does not run them
IdleParser ==
    /\ dpkg_errs = <<>>
    /\ files = {}
    /\ parse_done = FALSE
    /\ parsed = [capture_packages |-> FALSE, debs |-> {}, packages |-> {},
                 raised |-> FALSE]

IdleLoop ==
    /\ pc = "idle"
    /\ disk = {}
    /\ debs_to_install = {}
    /\ debs_remaining = {}
    /\ loop_count = 0
    /\ failed_debs = {}
    /\ failed_packages = None
    /\ violation = FALSE
    /\ n_lines = 0
    /\ capture_packages = FALSE
    /\ debs = {}
    /\ packages = {}
    /\ result = None
    /\ pass_inputs = <<>>
    /\ all_failed_names = {}

\* the values of r_codes: no command has run
NoCodes == [apt_fix_1 |-> None, configure_a |-> None, apt_fix_2 |-> None]

IdleStage ==
    /\ entry = "none"
    /\ dry_run = FALSE
    /\ s_pc = "idle"
    /\ mutated = FALSE
    /\ i_pc = "idle"
    /\ i_failed = None
    /\ r_pc = "idle"
    /\ r_todo = {}
    /\ r_cur = None
    /\ r_co = {}
    /\ r_codes = NoCodes
    /\ fix_result = None
    /\ ops = {}

IdlePass ==
    /\ p_pc = "idle"
    /\ p_install_child = "none"

\* nothing returned, nothing raised
NoOut == [raised |-> "none", hooks |-> {}, package |-> <<>>, packages |-> <<>>,
          skipped |-> {}, targets |-> {}]

IdleCls ==
    /\ apt_cache = {}
    /\ fullnames = {}
    /\ hook_glob = {}
    /\ hook_query = <<>>
    /\ shell_query = <<>>
    /\ crossgrader = [known |-> FALSE, is_installed |-> FALSE, dependencies |-> {}]
    /\ ignore_initramfs_remnants = FALSE
    /\ ignore_unavailable_targets = FALSE
    /\ names = <<>>
    /\ ignore_installed = FALSE
    /\ c_done = FALSE
    /\ c_out = NoOut
    /\ c_fn = "none"
    /\ c_prev = None

IdleMain ==
    /\ m_pc = "idle"
    /\ stage = "none"
    /\ args_dry_run = FALSE
    /\ args_packages = {}
    /\ foreign_arch = "none"
    /\ dpkg_archs = {}
    /\ hook_functions = "absent"
    /\ backup = FALSE
    /\ storage_dir = FALSE
    /\ purged = None
    /\ changed = {}

IdleOne ==
    /\ o_pc = "idle"
    /\ n_debs = 0
    /\ errs_install = <<>>
    /\ errs_configure = <<>>
    /\ options = <<>>
    /\ o_failed_debs = {}
    /\ o_failed_packages = {}

IdleRecover ==
    /\ f_pc = "idle"
    /\ f_packages = {}
    /\ dpkg_db = {}
    /\ ma_same = {}
    /\ prerm_scripts = {}
    /\ f_todo = {}
    /\ f_cur = None
    /\ f_co = {}
    /\ f_log = <<>>
    /\ f_ret = None

IdleMark ==
    /\ auto_pkgs_list = {}
    /\ mark_auto_pkgs = {}
    /\ marked = None

IdleFile ==
    /\ functions_file = None
    /\ backup_file = None
    /\ hook_series = None
    /\ hook_last = None

IdleRest == IdleOne /\ IdleRecover /\ IdleMark /\ IdleFile

IdleAux ==
    /\ IdlePass
    /\ IdleCls
    /\ IdleMain
    /\ IdleRest

IdleOther ==
    /\ IdleStage
    /\ IdleAux

TeeInit ==
    /\ IdleParser
    /\ IdleLoop
    /\ IdleOther
    /\ process_outs \in SUBSET Streams
    /\ child = "running"
    /\ child_want = "none"
    /\ exit_status = None
    /\ returncode = None
    /\ written = [s \in Streams |-> <<>>]
    /\ pipe = [s \in Streams |-> <<>>]
    /\ output_bufs = [s \in Streams |-> <<>>]
    /\ read_fds = {}
    /\ has_data = FALSE
    /\ t_pc = "select"
    /\ t_ret = NoRet

\* the child enters write() on one of its streams
ChildBeginWrite ==
    /\ child = "running"
    /\ child_want = "none"
    /\ TotalWritten < MaxWrites
    /\ \E s \in Streams : child_want' = s
    /\ UNCHANGED <<process_outs, child, exit_status, returncode, written, pipe,
                   output_bufs, read_fds, has_data, t_pc, t_ret>>
    /\ UNCHANGED <<parser_vars, loop_vars, other_vars>>

\* the write() completes: at once on a stream that is no pipe (the terminal),
\* and on a pipe as soon as it has room; until then the child is blocked
ChildWrite ==
    /\ child = "running"
    /\ child_want # "none"
    /\ LET s == child_want
           b == TotalWritten + 1
       IN  /\ s \in process_outs => Len(pipe[s]) < PipeCap
           /\ written' = [written EXCEPT ![s] = Append(@, b)]
           /\ pipe' = IF s \in process_outs
                         THEN [pipe EXCEPT ![s] = Append(@, b)]
                         ELSE pipe
    /\ child_want' = "none"
    /\ UNCHANGED <<process_outs, child, exit_status, returncode, output_bufs,
                   read_fds, has_data, t_pc, t_ret>>
    /\ UNCHANGED <<parser_vars, loop_vars, other_vars>>

\* the child exits; what it wrote stays in the pipes
ChildExit ==
    /\ child = "running"
    /\ child_want = "none"
    /\ child' = "exited"
    /\ \E c \in ExitCodes : exit_status' = Code(c)
    /\ UNCHANGED <<process_outs, child_want, returncode, written, pipe,
                   output_bufs, read_fds, has_data, t_pc, t_ret>>
    /\ UNCHANGED <<parser_vars, loop_vars, other_vars>>

\* line 67, and the start of write_contents (data_read = False)
Select ==
    /\ t_pc = "select"
    /\ read_fds' = SelectReady
    /\ has_data' = FALSE
    /\ t_pc' = "write_contents"
    /\ UNCHANGED <<process_outs, child, child_want, exit_status, returncode,
                   written, pipe, output_bufs, t_ret>>
    /\ UNCHANGED <<parser_vars, loop_vars, other_vars>>

\* lines 33-45: one turn of the for loop: child_fd.read() takes all that is in
\* the pipe; non-empty data is appended to the descriptor's own buffer
WriteContents ==
    /\ t_pc = "write_contents"
    /\ read_fds # {}
    /\ LET child_fd == FirstFd(read_fds)
           data == pipe[child_fd]
       IN  /\ pipe' = [pipe EXCEPT ![child_fd] = <<>>]
           /\ read_fds' = read_fds \ {child_fd}
           /\ IF data # <<>>
                 THEN /\ has_data' = TRUE
                      /\ output_bufs' = [output_bufs EXCEPT ![child_fd] = append(@, data)]
                 ELSE UNCHANGED <<has_data, output_bufs>>
    /\ UNCHANGED <<process_outs, child, child_want, exit_status, returncode,
                   written, t_pc, t_ret>>
    /\ UNCHANGED <<parser_vars, loop_vars, other_vars>>

\* lines 70-81: process.poll() reaps the exit status if the child has exited;
\* then either the next round or the return
Poll ==
    /\ t_pc = "write_contents"
    /\ read_fds = {}
    /\ returncode' = exit_status
    /\ IF LoopExit
          THEN /\ t_pc' = "done"
               /\ t_ret' = [exit_code |-> returncode',
                            stdout |-> Captured("stdout"),
                            stderr |-> Captured("stderr")]
          ELSE /\ t_pc' = "select"
               /\ t_ret' = t_ret
    /\ UNCHANGED <<process_outs, child, child_want, exit_status, written, pipe,
                   output_bufs, read_fds, has_data>>
    /\ UNCHANGED <<parser_vars, loop_vars, other_vars>>

ChildStep == ChildBeginWrite \/ ChildWrite \/ ChildExit

ParentStep == Select \/ WriteContents \/ Poll

TeeNext == ChildStep \/ ParentStep

SpecTee == TeeInit /\ [][TeeNext]_vars

\* the parent is a running thread of control: it keeps taking its steps
SpecTeeFair == TeeInit /\ [][TeeNext]_vars /\ WF_vars(ParentStep)

IdleTee ==
    /\ process_outs = {}
    /\ child = "exited"
    /\ child_want = "none"
    /\ exit_status = None
    /\ returncode = None
    /\ written = [s \in Streams |-> <<>>]
    /\ pipe = [s \in Streams |-> <<>>]
    /\ output_bufs = [s \in Streams |-> <<>>]
    /\ read_fds = {}
    /\ has_data = FALSE
    /\ t_pc = "idle"
    /\ t_ret = NoRet

---------------------------------------------------------------------------
(* get_dpkg_failures *)

\* A line is a sequence of pieces of text; the line is their concatenation.
\* Three pieces have a meaning to the parser:
SP == " "
DEB == ".deb"
SENTINEL == "Errors were encountered while processing:"

\* str.strip(): without leading and trailing whitespace
RECURSIVE lstrip(_)
lstrip(l) == IF l # <<>> /\ Head(l) = SP THEN lstrip(Tail(l)) ELSE l

RECURSIVE rstrip(_)
rstrip(l) == IF l # <<>> /\ l[Len(l)] = SP THEN rstrip(SubSeq(l, 1, Len(l) - 1)) ELSE l

strip(l) == rstrip(lstrip(l))

\* line.endswith('.deb')
endswith_deb(l) == l # <<>> /\ l[Len(l)] = DEB

\* line == 'Errors were encountered while processing:'
is_sentinel(l) == l = <<SENTINEL>>

\* the path of the .deb file called n
Path(n) == <<n, DEB>>

DebNames == <<"x", "y", "z", "w", "v">>

\* the .deb files a caller may hand to the loop
Artifacts == {Path(DebNames[i]) : i \in 1..MaxDebs}

\* a .deb file that exists and is never handed to the loop, and a path that
\* names no file
OtherDeb == Path("other")
GhostDeb == Path("ghost")

\* the sentinel and the entries of dpkg's error list (dpkg indents an entry
\* by one space): archives and package names
EntryLines ==
    {<<SENTINEL>>}
    \cup {<<SP>> \o a : a \in Artifacts \cup {OtherDeb, GhostDeb}}
    \cup {<<SP, "pkgname:amd64">>, <<SP, "libfoo:i386">>}

\* the lines dpkg's stderr is made of: those, an empty entry, and a message
\* that mentions an archive
DpkgLines ==
    EntryLines
    \cup {<<SP>>}
    \cup {<<"dpkg: error processing archive", SP, "x", DEB, SP, "(--install):">>}

\* the captured streams
Streams_of_lines(n) == UNION {[1..k -> DpkgLines] : k \in 0..n}

\* a parser that takes every line for an entry of the error list
ParserStartCapturing == [capture_packages |-> TRUE, debs |-> {}, packages |-> {},
                         raised |-> FALSE]

\* the locals of get_dpkg_failures; raised: the assert of line 387 has failed
ParserStart == [capture_packages |-> FALSE, debs |-> {}, packages |-> {},
                raised |-> FALSE]

\* a parser that files .deb entries under the package names too
ParserBody_DebAsName(st, raw, on_disk) ==
    LET l == strip(raw)
    IN  [capture_packages |-> st.capture_packages \/ is_sentinel(l),
         debs |-> IF st.capture_packages /\ endswith_deb(l)
                     THEN st.debs \cup {l} ELSE st.debs,
         packages |-> IF st.capture_packages
                         THEN st.packages \cup {l} ELSE st.packages,
         raised |-> FALSE]

\* a parser without the assert of line 387
ParserBody_NoAssert(st, raw, on_disk) ==
    LET l == strip(raw)
    IN  [capture_packages |-> st.capture_packages \/ is_sentinel(l),
         debs |-> IF st.capture_packages /\ endswith_deb(l)
                     THEN st.debs \cup {l} ELSE st.debs,
         packages |-> IF st.capture_packages /\ ~endswith_deb(l)
                         THEN st.packages \cup {l} ELSE st.packages,
         raised |-> FALSE]

\* lines 383-393: the body of the for loop, on the raw line `raw`, with the
\* regular files on_disk
ParserBody(st, raw, on_disk) ==
    LET l == strip(raw)
    IN  IF st.capture_packages /\ endswith_deb(l) /\ l \notin on_disk
           THEN [st EXCEPT !.raised = TRUE]
           ELSE [capture_packages |-> st.capture_packages \/ is_sentinel(l),
                 debs |-> IF st.capture_packages /\ endswith_deb(l)
                             THEN st.debs \cup {l} ELSE st.debs,
                 packages |-> IF st.capture_packages /\ ~endswith_deb(l)
                                 THEN st.packages \cup {l} ELSE st.packages,
                 raised |-> FALSE]

\* lines 377-395: the for loop over the lines, left at once when the assert fails
RECURSIVE ParserRun(_, _, _)
ParserRun(st, errs, on_disk) ==
    IF errs = <<>> \/ st.raised
       THEN st
       ELSE ParserRun(ParserBody(st, Head(errs), on_disk), Tail(errs), on_disk)

get_dpkg_failures(errs, on_disk) == ParserRun(ParserStart, errs, on_disk)

ParserInit ==
    /\ IdleTee
    /\ IdleLoop
    /\ IdleOther
    /\ dpkg_errs \in Streams_of_lines(MaxLines)
    /\ files \in SUBSET (Artifacts \cup {OtherDeb})
    /\ parse_done = FALSE
    /\ parsed = ParserStart

\* failed_debs, failed_packages = get_dpkg_failures(errs.splitlines())
Parse ==
    /\ ~parse_done
    /\ parse_done' = TRUE
    /\ parsed' = get_dpkg_failures(dpkg_errs, files)
    /\ UNCHANGED <<dpkg_errs, files, tee_vars, loop_vars, other_vars>>

SpecParser == ParserInit /\ [][Parse]_vars

---------------------------------------------------------------------------
(* _install_and_configure and _install_configure_loop *)

(* The lists of the code hold no path twice (every caller globs a directory, *)
(* and the later ones are list(set)), so they are sets here and len is       *)
(* Cardinality. The captured stderr of each dpkg command is read line by     *)
(* line: any line of EntryLines may come next, up to MaxLines lines. While a *)
(* pass runs, failed_debs and failed_packages are the locals of              *)
(* _install_and_configure; they become the loop's when it returns.           *)

LoopInit ==
    /\ IdleTee
    /\ IdleParser
    /\ IdleOther
    /\ pc = "while"
    /\ disk = Artifacts \cup {OtherDeb}
    /\ debs_to_install \in SUBSET Artifacts
    /\ debs_remaining = debs_to_install
    /\ loop_count = 0
    /\ failed_debs = {}
    /\ failed_packages = None
    /\ violation = FALSE
    /\ n_lines = 0
    /\ capture_packages = FALSE
    /\ debs = {}
    /\ packages = {}
    /\ result = None
    /\ pass_inputs = <<>>
    /\ all_failed_names = {}

\* a loop that halts only when nothing at all was installed or reported
NoProgress_Never(failed, remaining) == FALSE

\* line 468: the number of failed installs did not decrease
NoProgress(failed, remaining) == Cardinality(failed) = Cardinality(remaining)

\* a loop that reports the files it was retrying
StallPayload_Remaining(failed, remaining) == Some(remaining)

\* line 470: what PackageInstallationError carries
StallPayload(failed, remaining) == Some(failed)

\* a loop that accumulates the names of every pass
ReturnValue_Union(last, seen) == Some(seen)

\* line 479: what the loop returns: failed_packages as the last pass left it
ReturnValue(last, seen) == last

\* a loop that removes every file it tried
ToRemove_All(remaining, failed) == remaining

\* a loop that removes the files that failed
ToRemove_Failed(remaining, failed) == remaining \cap failed

\* a loop that removes nothing
ToRemove_None(remaining, failed) == {}

\* lines 462-464: the files the loop removes after a pass
ToRemove(remaining, failed) == remaining \ failed

\* a loop that retries everything it was given
NextRemaining_Same(remaining, failed) == remaining

\* line 472
NextRemaining(remaining, failed) == failed

\* lines 456-458 and 403: the loop test; a pass starts with dpkg -i on
\* debs_remaining; line 479: the return
WhileTest ==
    /\ pc = "while"
    /\ IF debs_remaining # {}
          THEN /\ loop_count' = loop_count + 1
               /\ pass_inputs' = Append(pass_inputs, debs_remaining)
               /\ pc' = "dpkg_install"
               /\ result' = result
          ELSE /\ pc' = "returned"
               /\ result' = ReturnValue(failed_packages, all_failed_names)
               /\ UNCHANGED <<loop_count, pass_inputs>>
    /\ n_lines' = 0
    /\ capture_packages' = FALSE
    /\ debs' = {}
    /\ packages' = {}
    /\ UNCHANGED <<disk, debs_to_install, debs_remaining, failed_debs,
                   failed_packages, violation, all_failed_names>>
    /\ UNCHANGED <<tee_vars, parser_vars, other_vars>>

\* lines 382-393: get_dpkg_failures reads the next line of the stderr of the
\* command that has just run (dpkg -i, or dpkg --configure -a)
ReadLine ==
    /\ pc \in {"dpkg_install", "dpkg_configure"}
    /\ n_lines < MaxLines
    /\ \E raw \in EntryLines :
          LET st == ParserBody([capture_packages |-> capture_packages,
                                debs |-> debs, packages |-> packages,
                                raised |-> FALSE], raw, disk)
          IN  /\ violation' = (/\ capture_packages
                             /\ endswith_deb(strip(raw))
                             /\ strip(raw) \notin disk)
              /\ capture_packages' = st.capture_packages
              /\ debs' = st.debs
              /\ packages' = st.packages
              /\ pc' = IF st.raised THEN "AssertionError" ELSE pc
              /\ result' = IF st.raised THEN Some({strip(raw)}) ELSE result
    /\ n_lines' = n_lines + 1
    /\ UNCHANGED <<disk, debs_to_install, debs_remaining, loop_count, failed_debs,
                   failed_packages, pass_inputs, all_failed_names>>
    /\ UNCHANGED <<tee_vars, parser_vars, other_vars>>

\* lines 408-414: the parse of dpkg -i's stderr returns; dpkg --configure -a
\* is run and a new parse starts on its stderr
EndInstall ==
    /\ pc = "dpkg_install"
    /\ failed_debs' = debs
    /\ failed_packages' = Some(packages)
    /\ n_lines' = 0
    /\ capture_packages' = FALSE
    /\ debs' = {}
    /\ packages' = {}
    /\ pc' = "dpkg_configure"
    /\ UNCHANGED <<disk, debs_to_install, debs_remaining, loop_count, violation,
                   result, pass_inputs, all_failed_names>>
    /\ UNCHANGED <<tee_vars, parser_vars, other_vars>>

\* lines 416-420 and 460: the second parse returns, the results are united
\* and _install_and_configure returns them to the loop
EndConfigure ==
    /\ pc = "dpkg_configure"
    /\ failed_debs' = failed_debs \cup debs
    /\ failed_packages' = Some(failed_packages[1] \cup packages)
    /\ all_failed_names' = all_failed_names \cup failed_packages[1] \cup packages
    /\ pc' = "remove"
    /\ UNCHANGED <<disk, debs_to_install, debs_remaining, loop_count, violation,
                   n_lines, capture_packages, debs, packages, result, pass_inputs>>
    /\ UNCHANGED <<tee_vars, parser_vars, other_vars>>

\* lines 462-464: os.remove of every deb of this pass that is not in
\* failed_debs; os.remove raises when the file is not there
RemoveInstalled ==
    /\ pc = "remove"
    /\ IF ToRemove(debs_remaining, failed_debs) \subseteq disk
          THEN /\ disk' = disk \ ToRemove(debs_remaining, failed_debs)
               /\ pc' = "check"
          ELSE /\ disk' = disk \ ToRemove(debs_remaining, failed_debs)
               /\ pc' = "FileNotFoundError"
    /\ UNCHANGED <<debs_to_install, debs_remaining, loop_count, failed_debs,
                   failed_packages, violation, n_lines, capture_packages, debs, packages,
                   result, pass_inputs, all_failed_names>>
    /\ UNCHANGED <<tee_vars, parser_vars, other_vars>>

\* lines 466-472: the assert, the stall test, and the next remaining set
CheckProgress ==
    /\ pc = "check"
    /\ IF ~(Cardinality(failed_debs) <= Cardinality(debs_remaining))
          THEN /\ pc' = "AssertionError"
               /\ UNCHANGED <<debs_remaining, result>>
          ELSE IF NoProgress(failed_debs, debs_remaining)
          THEN /\ pc' = "PackageInstallationError"
               /\ result' = StallPayload(failed_debs, debs_remaining)
               /\ UNCHANGED debs_remaining
          ELSE /\ pc' = "while"
               /\ debs_remaining' = NextRemaining(debs_remaining, failed_debs)
               /\ UNCHANGED result
    /\ UNCHANGED <<disk, debs_to_install, loop_count, failed_debs, failed_packages,
                   violation, n_lines, capture_packages, debs, packages, pass_inputs,
                   all_failed_names>>
    /\ UNCHANGED <<tee_vars, parser_vars, other_vars>>

Next ==
    \/ WhileTest
    \/ ReadLine
    \/ EndInstall
    \/ EndConfigure
    \/ RemoveInstalled
    \/ CheckProgress

Spec == LoopInit /\ [][Next]_vars

---------------------------------------------------------------------------
(* _fix_dpkg_errors *)

(* The commands _fix_dpkg_errors runs are the environment: each exit code,  *)
(* each answer of dpkg -s and dpkg-query and each answer of the operator is *)
(* drawn when the command runs. ops records the commands that were run.     *)

\* line 309: ':' in package; every name of the model's error lists has one
has_colon(package) ==
    package \in {<<"pkgname:amd64">>, <<"libfoo:i386">>, <<SENTINEL>>}

\* lines 311-315: the packages dpkg-query -W short_name can list, as
\* name:architecture; none for a name dpkg does not know
Variants(package) ==
    IF package = <<"pkgname:amd64">>
       THEN {<<"pkgname:amd64">>, <<"pkgname:i386">>}
       ELSE IF package = <<"libfoo:i386">>
               THEN {<<"libfoo:i386">>, <<"libfoo:amd64">>}
               ELSE {}

\* a recovery that takes None for a list of failures
NothingToFix_EmptyListOnly(pkgs) == pkgs = Some({})

\* line 289: not packages (None, or an empty list)
NothingToFix(pkgs) == pkgs = None \/ pkgs = Some({})

\* a recovery that never trusts the first apt-get install -f
FirstFixSucceeded_Never(ret_code) == FALSE

\* line 295
FirstFixSucceeded(ret_code) == ret_code = 0

\* a recovery that goes on after a failed dpkg --configure -a
ConfigureFailed_Never(ret_code) == FALSE

\* line 346
ConfigureFailed(ret_code) == ret_code # 0

\* lines 351-354
SecondFixSucceeded(ret_code) == ret_code = 0

\* lines 289-298: nothing to fix, or the first apt-get install -f -y
FixStart ==
    /\ r_pc = "start"
    /\ IF NothingToFix(i_failed)
          THEN /\ fix_result' = Some(TRUE)
               /\ r_pc' = "returned"
               /\ UNCHANGED <<r_todo, r_codes, ops>>
          ELSE \E ret_code \in ExitCodes :
                  /\ r_codes' = [r_codes EXCEPT !.apt_fix_1 = Code(ret_code)]
                  /\ ops' = ops \cup {"apt_fix"}
                  /\ IF FirstFixSucceeded(ret_code)
                        THEN /\ fix_result' = Some(TRUE)
                             /\ r_pc' = "returned"
                             /\ UNCHANGED r_todo
                        ELSE /\ r_pc' = "for_package"
                             /\ r_todo' = i_failed[1]
                             /\ UNCHANGED fix_result
    /\ UNCHANGED <<r_cur, r_co>>
    /\ UNCHANGED <<run_vars, install_vars>>
    /\ UNCHANGED <<tee_vars, parser_vars, loop_vars, aux_vars>>

\* lines 300-315: the next package of the for loop: dpkg -s tells whether it
\* is Multi-Arch: same (never of a name dpkg does not know); if so the
\* assert, then dpkg-query lists the installed packages of that name
NextPackage ==
    /\ r_pc = "for_package"
    /\ IF r_todo = {}
          THEN /\ r_pc' = "configure"
               /\ UNCHANGED <<r_todo, r_cur, r_co>>
          ELSE \E package \in r_todo :
                  /\ r_todo' = r_todo \ {package}
                  /\ \E same \in {s \in BOOLEAN : s => Variants(package) # {}} :
                        IF ~same
                           THEN UNCHANGED <<r_pc, r_cur, r_co>>
                           ELSE IF ~has_colon(package)
                                   THEN /\ r_pc' = "AssertionError"
                                        /\ UNCHANGED <<r_cur, r_co>>
                                   ELSE \/ /\ r_pc' = "CalledProcessError"
                                           /\ UNCHANGED <<r_cur, r_co>>
                                        \/ \E coinstalled \in SUBSET Variants(package) :
                                              /\ coinstalled # {}
                                              /\ r_pc' = "for_coinstalled"
                                              /\ r_cur' = Some(package)
                                              /\ r_co' = coinstalled
    /\ UNCHANGED <<r_codes, fix_result, ops>>
    /\ UNCHANGED <<run_vars, install_vars>>
    /\ UNCHANGED <<tee_vars, parser_vars, loop_vars, aux_vars>>

\* lines 316-342: the next coinstalled package: dpkg --remove --force-depends
\* unless it is the package itself; if that fails and a prerm script is there
\* and the operator agrees, the script is removed and the removal retried
RemoveCoinstalled ==
    /\ r_pc = "for_coinstalled"
    /\ IF r_co = {}
          THEN /\ r_pc' = "for_package"
               /\ r_cur' = None
               /\ UNCHANGED <<r_co, ops>>
          ELSE \E coinstalled_package \in r_co :
                  /\ r_co' = r_co \ {coinstalled_package}
                  /\ UNCHANGED <<r_pc, r_cur>>
                  /\ IF coinstalled_package = r_cur[1]
                        THEN UNCHANGED ops
                        ELSE \E ret_code \in ExitCodes, isfile \in BOOLEAN, cont \in BOOLEAN :
                                ops' = ops \cup {"force_remove"}
                                       \cup (IF ret_code # 0 /\ isfile /\ cont
                                                THEN {"rm_prerm"} ELSE {})
    /\ UNCHANGED <<r_todo, r_codes, fix_result>>
    /\ UNCHANGED <<run_vars, install_vars>>
    /\ UNCHANGED <<tee_vars, parser_vars, loop_vars, aux_vars>>

\* lines 344-347: dpkg --configure -a
Reconfigure ==
    /\ r_pc = "configure"
    /\ \E ret_code \in ExitCodes :
          /\ r_codes' = [r_codes EXCEPT !.configure_a = Code(ret_code)]
          /\ IF ConfigureFailed(ret_code)
                THEN /\ fix_result' = Some(FALSE)
                     /\ r_pc' = "returned"
                ELSE /\ r_pc' = "apt_fix"
                     /\ UNCHANGED fix_result
    /\ ops' = ops \cup {"configure_a"}
    /\ UNCHANGED <<r_todo, r_cur, r_co>>
    /\ UNCHANGED <<run_vars, install_vars>>
    /\ UNCHANGED <<tee_vars, parser_vars, loop_vars, aux_vars>>

\* lines 349-354: the second apt-get install -f
FixBrokenAgain ==
    /\ r_pc = "apt_fix"
    /\ \E ret_code \in ExitCodes :
          /\ r_codes' = [r_codes EXCEPT !.apt_fix_2 = Code(ret_code)]
          /\ fix_result' = Some(SecondFixSucceeded(ret_code))
    /\ r_pc' = "returned"
    /\ ops' = ops \cup {"apt_fix_again"}
    /\ UNCHANGED <<r_todo, r_cur, r_co>>
    /\ UNCHANGED <<run_vars, install_vars>>
    /\ UNCHANGED <<tee_vars, parser_vars, loop_vars, aux_vars>>

FixNext ==
    \/ FixStart
    \/ NextPackage
    \/ RemoveCoinstalled
    \/ Reconfigure
    \/ FixBrokenAgain

---------------------------------------------------------------------------
(* install_packages *)

\* an install_packages that always tries to fix
fix_broken_Always == TRUE

\* the fix_broken of the call the stage is in: line 115 leaves the default,
\* True; lines 61, 72 and 94 pass False
fix_broken == entry = "second" /\ s_pc = "install_targets"

\* an install_packages for which a failed recovery is an error
AfterFailedFix_Raise == "PackageInstallationError"

\* lines 543-546: after a recovery that returned False, the message and then
\* the re-marking
AfterFailedFix == "remark"

\* line 528: dpkg-deb --showformat=${Package}:${Architecture} -W deb; the
\* artifact n.deb holds the package n of the target architecture
pkg_full_name(deb) == <<deb[1], TargetArch>>

\* lines 515-520: the names apt-mark showauto printed, without architecture
auto_pkgs(showauto) == {pkg[1] : pkg \in showauto}

\* an install_packages that marks every package it was given
MarkAutoPkgs_All(debs_given, showauto) == {pkg_full_name(deb) : deb \in debs_given}

\* lines 524-538: the full names of the debs whose short name is in auto_pkgs
MarkAutoPkgs(debs_given, showauto) ==
    {pkg_full_name(deb) : deb \in {d \in debs_given : d[1] \in auto_pkgs(showauto)}}

\* lines 497-541: debs_to_install (given, or the .debs of APT's cache: in
\* both cases the artifacts on disk), apt-mark showauto and dpkg-deb -W (their
\* asserts), then the call of _install_configure_loop
ParseAutoInstalled ==
    /\ i_pc = "parse_auto"
    /\ \/ /\ s_pc' = "AssertionError"
          /\ i_pc' = "idle"
          /\ UNCHANGED mark_auto_pkgs
          /\ UNCHANGED loop_vars
       \/ /\ i_pc' = "loop"
          /\ pc' = "while"
          /\ debs_to_install' = disk \cap Artifacts
          /\ debs_remaining' = disk \cap Artifacts
          /\ loop_count' = 0
          /\ failed_debs' = {}
          /\ failed_packages' = None
          /\ violation' = FALSE
          /\ n_lines' = 0
          /\ capture_packages' = FALSE
          /\ debs' = {}
          /\ packages' = {}
          /\ result' = None
          /\ pass_inputs' = <<>>
          /\ all_failed_names' = {}
          /\ mark_auto_pkgs' = MarkAutoPkgs(disk \cap Artifacts, auto_pkgs_list)
          /\ UNCHANGED <<disk, s_pc>>
    /\ ops' = {}
    /\ i_failed' = None
    /\ fix_result' = None
    /\ r_codes' = NoCodes
    /\ marked' = None
    /\ UNCHANGED auto_pkgs_list
    /\ UNCHANGED <<entry, dry_run, mutated, r_pc, r_todo, r_cur, r_co>>
    /\ UNCHANGED <<tee_vars, parser_vars, pass_vars, cls_vars, main_vars, one_vars,
                   recover_vars, file_vars>>

\* lines 541-543: the loop returns its failed_packages (its frame is gone);
\* _fix_dpkg_errors is called if fix_broken
LoopReturns ==
    /\ i_pc = "loop"
    /\ pc = "returned"
    /\ i_failed' = result
    /\ mutated' = (mutated \/ loop_count > 0)
    /\ IF fix_broken
          THEN i_pc' = "fix" /\ r_pc' = "start"
          ELSE i_pc' = "remark" /\ r_pc' = r_pc
    /\ pc' = "idle"
    /\ debs_remaining' = {}
    /\ loop_count' = 0
    /\ failed_debs' = {}
    /\ failed_packages' = None
    /\ violation' = FALSE
    /\ n_lines' = 0
    /\ capture_packages' = FALSE
    /\ debs' = {}
    /\ packages' = {}
    /\ result' = None
    /\ pass_inputs' = <<>>
    /\ all_failed_names' = {}
    /\ UNCHANGED <<disk, debs_to_install>>
    /\ UNCHANGED <<entry, dry_run, s_pc, r_todo, r_cur, r_co, r_codes, fix_result, ops>>
    /\ UNCHANGED <<tee_vars, parser_vars, aux_vars>>

\* lines 543-544: _fix_dpkg_errors returns; False only earns a message
FixReturns ==
    /\ i_pc = "fix"
    /\ r_pc = "returned"
    /\ r_pc' = "idle"
    /\ IF fix_result = Some(FALSE)
          THEN /\ ops' = ops \cup {"warn_manual"}
               /\ IF AfterFailedFix = "remark"
                     THEN i_pc' = "remark" /\ s_pc' = s_pc
                     ELSE i_pc' = "idle" /\ s_pc' = AfterFailedFix
          ELSE /\ ops' = ops
               /\ i_pc' = "remark"
               /\ s_pc' = s_pc
    /\ UNCHANGED <<entry, dry_run, mutated, i_failed, r_todo, r_cur, r_co, r_codes,
                   fix_result>>
    /\ UNCHANGED <<tee_vars, parser_vars, loop_vars, aux_vars>>

\* lines 546-549: apt-mark auto, whose exit code is ignored; the return
RemarkAuto ==
    /\ i_pc = "remark"
    /\ ops' = ops \cup {"apt_mark_auto"}
    /\ marked' = Some(mark_auto_pkgs)
    /\ i_pc' = "returned"
    /\ UNCHANGED <<auto_pkgs_list, mark_auto_pkgs>>
    /\ UNCHANGED <<run_vars, i_failed, fix_vars>>
    /\ UNCHANGED <<tee_vars, parser_vars, loop_vars, pass_vars, cls_vars, main_vars,
                   one_vars, recover_vars, file_vars>>

InstallNext ==
    \/ ParseAutoInstalled
    \/ LoopReturns
    \/ FixReturns
    \/ RemarkAuto

---------------------------------------------------------------------------
(* first_stage and second_stage *)

(* The classifier is a query: the stage sees its outcome only (a target    *)
(* list or one of its two errors). The answers of the operator and the     *)
(* options of the command line that are read once are drawn where they are *)
(* read. An exception ends the run: s_pc, pc or r_pc names it.             *)

StageInit ==
    /\ IdleTee
    /\ IdleParser
    /\ IdleAux
    /\ entry \in {"first", "second"}
    /\ dry_run \in BOOLEAN
    /\ s_pc = "start"
    /\ mutated = FALSE
    /\ i_pc = "idle"
    /\ i_failed = None
    /\ r_pc = "idle"
    /\ r_todo = {}
    /\ r_cur = None
    /\ r_co = {}
    /\ r_codes = NoCodes
    /\ fix_result = None
    /\ ops = {}
    /\ pc = "idle"
    \* the saved qemu-user-static debs, if any (second stage)
    /\ disk \in {saved \cup {OtherDeb} :
                    saved \in IF entry = "second" THEN SUBSET Artifacts ELSE {{}}}
    /\ debs_to_install = {}
    /\ debs_remaining = {}
    /\ loop_count = 0
    /\ failed_debs = {}
    /\ failed_packages = None
    /\ violation = FALSE
    /\ n_lines = 0
    /\ capture_packages = FALSE
    /\ debs = {}
    /\ packages = {}
    /\ result = None
    /\ pass_inputs = <<>>
    /\ all_failed_names = {}

\* __main__.py lines 17-31: the targets (of -p, or list_first_stage_targets),
\* their listing, the return of a dry run
FS_ListTargets ==
    /\ entry = "first"
    /\ s_pc = "start"
    /\ \/ s_pc' = "RemnantInitramfsHooksError"
       \/ s_pc' = "PackageNotFoundError"
       \/ s_pc' = IF dry_run THEN "done" ELSE "confirm"
    /\ UNCHANGED <<entry, dry_run, mutated, install_vars, fix_vars, ops>>
    /\ UNCHANGED <<tee_vars, parser_vars, loop_vars, aux_vars>>

\* lines 33-47 and 74-75: the operator's answer; the qemu debs are to be saved
\* if qemu is needed and not yet saved: find_package_objs, which may raise
FS_Confirm ==
    /\ entry = "first"
    /\ s_pc = "confirm"
    /\ \E cont \in BOOLEAN, save_qemu \in BOOLEAN :
          IF ~cont
             THEN s_pc' = "done"
             ELSE IF save_qemu
                     THEN \/ s_pc' = "PackageNotFoundError"
                          \/ s_pc' = "fetch_qemu"
                     ELSE s_pc' = "after_qemu"
    /\ UNCHANGED <<entry, dry_run, mutated, install_vars, fix_vars, ops>>
    /\ UNCHANGED <<tee_vars, parser_vars, loop_vars, aux_vars>>

\* lines 49-60 and 69: download only; or find_package_objs of dpkg, apt,
\* python3 and python3-apt, which may raise, and the choice of what to install
FS_AfterQemu ==
    /\ entry = "first"
    /\ s_pc = "after_qemu"
    /\ \E download_only \in BOOLEAN, all_installed \in BOOLEAN :
          IF download_only
             THEN s_pc' = "fetch_only"
             ELSE \/ s_pc' = "PackageNotFoundError"
                  \/ s_pc' = IF all_installed THEN "fetch_targets" ELSE "fetch_tools"
    /\ UNCHANGED <<entry, dry_run, mutated, install_vars, fix_vars, ops>>
    /\ UNCHANGED <<tee_vars, parser_vars, loop_vars, aux_vars>>

\* a first stage that lists its targets again once the qemu debs are saved
AfterFetch_Relist(download_only) ==
    CASE s_pc = "fetch_qemu" -> "start"
      [] s_pc = "fetch_only" -> "done"
      [] s_pc = "fetch_tools" -> "install_tools"
      [] s_pc = "fetch_targets" ->
            IF entry = "second" /\ download_only THEN "done" ELSE "install_targets"

\* where a stage goes on after a fetch
AfterFetch(download_only) ==
    CASE s_pc = "fetch_qemu" -> "after_qemu"
      [] s_pc = "fetch_only" -> "done"
      [] s_pc = "fetch_tools" -> "install_tools"
      [] s_pc = "fetch_targets" ->
            IF entry = "second" /\ download_only THEN "done" ELSE "install_targets"

\* crossgrader.py lines 551-608, cache_package_debs: apt-get clean empties
\* APT's cache, the space check may raise, fetch_archives downloads the debs
\* of the targets, which are moved away when a target_dir is given (the qemu
\* debs); then the stage goes on (__main__.py lines 46-50, 60-61, 69-72,
\* 112-115), with install_packages where it is called
Fetch ==
    /\ s_pc \in {"fetch_qemu", "fetch_only", "fetch_tools", "fetch_targets"}
    /\ \/ /\ s_pc' = "NotEnoughSpaceError"
          /\ disk' = {OtherDeb}
          /\ UNCHANGED <<mutated, i_pc>>
       \/ \E fetched \in SUBSET Artifacts, download_only \in BOOLEAN :
             /\ mutated' = TRUE
             /\ disk' = IF s_pc = "fetch_qemu" THEN {OtherDeb}
                                               ELSE fetched \cup {OtherDeb}
             /\ s_pc' = AfterFetch(download_only)
             /\ i_pc' = IF s_pc' \in {"install_tools", "install_targets"}
                           THEN "parse_auto" ELSE i_pc
    /\ UNCHANGED <<entry, dry_run, i_failed, fix_vars, ops>>
    /\ UNCHANGED <<debs_to_install, debs_remaining, loop_count, failed_debs,
                   failed_packages, violation, n_lines, capture_packages, debs,
                   packages, result, pass_inputs, all_failed_names, pc>>
    /\ UNCHANGED <<tee_vars, parser_vars, aux_vars>>

\* __main__.py lines 61-67 and 72-73: install_packages has returned
FS_Installed ==
    /\ entry = "first"
    /\ s_pc \in {"install_tools", "install_targets"}
    /\ i_pc = "returned"
    /\ i_pc' = "idle"
    /\ s_pc' = "done"
    /\ UNCHANGED <<entry, dry_run, mutated, i_failed, fix_vars, ops>>
    /\ UNCHANGED <<tee_vars, parser_vars, loop_vars, aux_vars>>

\* lines 83-99: the saved qemu debs are installed first, if their directory
\* exists (it does when it holds debs), the run is not dry and the operator
\* agrees: install_packages(glob(...), fix_broken=False)
SS_Qemu ==
    /\ entry = "second"
    /\ s_pc = "start"
    /\ \E isdir \in {b \in BOOLEAN : disk \cap Artifacts # {} => b}, cont \in BOOLEAN :
          IF isdir /\ ~dry_run /\ cont
             THEN s_pc' = "install_qemu" /\ i_pc' = "parse_auto"
             ELSE s_pc' = "list_targets" /\ i_pc' = i_pc
    /\ UNCHANGED <<entry, dry_run, mutated, i_failed, fix_vars, ops>>
    /\ UNCHANGED <<tee_vars, parser_vars, loop_vars, aux_vars>>

\* lines 96-97: install_packages has returned, os.rmdir
SS_QemuInstalled ==
    /\ entry = "second"
    /\ s_pc = "install_qemu"
    /\ i_pc = "returned"
    /\ i_pc' = "idle"
    /\ s_pc' = "list_targets"
    /\ UNCHANGED <<entry, dry_run, mutated, i_failed, fix_vars, ops>>
    /\ UNCHANGED <<tee_vars, parser_vars, loop_vars, aux_vars>>

\* lines 101-108: list_second_stage_targets, which may raise; the return of a
\* dry run
SS_ListTargets ==
    /\ entry = "second"
    /\ s_pc = "list_targets"
    /\ \/ s_pc' = "PackageNotFoundError"
       \/ s_pc' = IF dry_run THEN "done" ELSE "confirm"
    /\ UNCHANGED <<entry, dry_run, mutated, install_vars, fix_vars, ops>>
    /\ UNCHANGED <<tee_vars, parser_vars, loop_vars, aux_vars>>

\* lines 110-117: the operator's answer
SS_Confirm ==
    /\ entry = "second"
    /\ s_pc = "confirm"
    /\ \E cont \in BOOLEAN : s_pc' = IF cont THEN "fetch_targets" ELSE "done"
    /\ UNCHANGED <<entry, dry_run, mutated, install_vars, fix_vars, ops>>
    /\ UNCHANGED <<tee_vars, parser_vars, loop_vars, aux_vars>>

\* line 115: install_packages has returned
SS_Installed ==
    /\ entry = "second"
    /\ s_pc = "install_targets"
    /\ i_pc = "returned"
    /\ i_pc' = "idle"
    /\ s_pc' = "done"
    /\ UNCHANGED <<entry, dry_run, mutated, i_failed, fix_vars, ops>>
    /\ UNCHANGED <<tee_vars, parser_vars, loop_vars, aux_vars>>

StageNext ==
    \/ FS_ListTargets
    \/ FS_Confirm
    \/ FS_AfterQemu
    \/ Fetch
    \/ FS_Installed
    \/ SS_Qemu
    \/ SS_QemuInstalled
    \/ SS_ListTargets
    \/ SS_Confirm
    \/ SS_Installed
    \/ InstallNext
    \/ FixNext
    \/ Next

SpecStage == StageInit /\ [][StageNext]_vars

\* ---- install_packages on its own, as the stages call it after a fetch ----

\* what apt-mark showauto may print: a package of the native architecture (no
\* colon); or one of another architecture and one that no artifact holds
AutoLists == {{<<"x">>}, {<<"y", CurrentArch>>, <<"bash">>}}

\* __main__.py lines 72 and 115: install_packages() on the debs of APT's
\* cache, with fix_broken=False (first stage) or the default (second stage)
InstallInit ==
    /\ IdleTee
    /\ IdleParser
    /\ IdlePass
    /\ IdleCls
    /\ IdleMain
    /\ IdleOne
    /\ IdleRecover
    /\ IdleFile
    /\ entry \in {"first", "second"}
    /\ dry_run = FALSE
    /\ s_pc = "install_targets"
    /\ mutated = TRUE
    /\ i_pc = "parse_auto"
    /\ i_failed = None
    /\ r_pc = "idle"
    /\ r_todo = {}
    /\ r_cur = None
    /\ r_co = {}
    /\ r_codes = NoCodes
    /\ fix_result = None
    /\ ops = {}
    /\ pc = "idle"
    /\ disk \in {fetched \cup {OtherDeb} : fetched \in SUBSET Artifacts}
    /\ debs_to_install = {}
    /\ debs_remaining = {}
    /\ loop_count = 0
    /\ failed_debs = {}
    /\ failed_packages = None
    /\ violation = FALSE
    /\ n_lines = 0
    /\ capture_packages = FALSE
    /\ debs = {}
    /\ packages = {}
    /\ result = None
    /\ pass_inputs = <<>>
    /\ all_failed_names = {}
    /\ auto_pkgs_list \in AutoLists
    /\ mark_auto_pkgs = {}
    /\ marked = None

InstallCallNext == InstallNext \/ FixNext \/ Next

SpecInstall == InstallInit /\ [][InstallCallNext]_vars

---------------------------------------------------------------------------
(* One pass of _install_and_configure, its two commands under tee_process *)

(* Both commands are started with stdout=sys.stdout and stderr=PIPE, so the *)
(* only pipe is stderr. What the captured text says is not modelled here    *)
(* (the bytes are numbers): the parser's verdict on it is drawn.            *)

PassInit ==
    /\ IdleParser
    /\ IdleLoop
    /\ IdleStage
    /\ IdleCls
    /\ IdleMain
    /\ IdleRest
    /\ p_pc = "dpkg_install"
    /\ p_install_child = "none"
    /\ process_outs = {"stderr"}
    /\ child = "running"
    /\ child_want = "none"
    /\ exit_status = None
    /\ returncode = None
    /\ written = [s \in Streams |-> <<>>]
    /\ pipe = [s \in Streams |-> <<>>]
    /\ output_bufs = [s \in Streams |-> <<>>]
    /\ read_fds = {}
    /\ has_data = FALSE
    /\ t_pc = "select"
    /\ t_ret = NoRet

\* lines 406-414: tee_process has returned for dpkg -i; its stderr is parsed
\* (the assert may fail); dpkg --configure -a is started and handed to
\* tee_process
ParseInstall ==
    /\ p_pc = "dpkg_install"
    /\ t_pc = "done"
    /\ \/ /\ p_pc' = "AssertionError"
          /\ UNCHANGED <<p_install_child, tee_vars>>
       \/ /\ p_pc' = "dpkg_configure"
          /\ p_install_child' = child
          /\ process_outs' = {"stderr"}
          /\ child' = "running"
          /\ child_want' = "none"
          /\ exit_status' = None
          /\ returncode' = None
          /\ written' = [s \in Streams |-> <<>>]
          /\ pipe' = [s \in Streams |-> <<>>]
          /\ output_bufs' = [s \in Streams |-> <<>>]
          /\ read_fds' = {}
          /\ has_data' = FALSE
          /\ t_pc' = "select"
          /\ t_ret' = NoRet
    /\ UNCHANGED <<parser_vars, loop_vars, stage_vars, cls_vars, main_vars, rest_vars>>

\* lines 414-420 and 460: tee_process has returned for dpkg --configure -a; its
\* stderr is parsed; the pass returns to the loop, which goes on to judge it
\* (lines 462-472)
ParseConfigure ==
    /\ p_pc = "dpkg_configure"
    /\ t_pc = "done"
    /\ \/ p_pc' = "AssertionError"
       \/ p_pc' = "evaluate"
    /\ UNCHANGED <<p_install_child, tee_vars>>
    /\ UNCHANGED <<parser_vars, loop_vars, stage_vars, cls_vars, main_vars, rest_vars>>

PassNext ==
    \/ ChildStep
    \/ ParentStep
    \/ ParseInstall
    \/ ParseConfigure

SpecPass == PassInit /\ [][PassNext]_vars

---------------------------------------------------------------------------
(* One pass of _install_and_configure, by the text of its two stderr *)

(* What tee_process hands back is taken as given here: the lines each        *)
(* command wrote to stderr are drawn beforehand, and only the number of debs *)
(* handed to the pass matters to the commands' options.                      *)

\* the longest stderr of one command, in lines
MaxPhaseLines == 2

\* the lines of a command's stderr: the sentinel, entries of the error list
\* (a deb that exists, a deb that does not, two package names)
PhaseLines ==
    {<<SENTINEL>>, <<SP>> \o Path("x"), <<SP>> \o GhostDeb,
     <<SP, "pkgname:amd64">>, <<SP, "libfoo:i386">>}

PhaseStreams == UNION {[1..k -> PhaseLines] : k \in 0..MaxPhaseLines}

\* len(debs_to_install): few debs, many, and about the 25 where twice the
\* number reaches 50
DebCounts == {0, 1, 24, 25, 26, 40}

max_error_count_Fixed(n) == 50

\* max_error_count = max(50, len(debs_to_install) * 2)
max_error_count(n) == IF 50 >= n * 2 THEN 50 ELSE n * 2

update_Replace(old, new) == new

\* failed_debs.update(new_failed_debs), failed_packages.update(new_failed_packages)
update(old, new) == old \cup new

OneInit ==
    /\ IdleTee
    /\ IdleParser
    /\ IdleLoop
    /\ IdleStage
    /\ IdlePass
    /\ IdleCls
    /\ IdleMain
    /\ IdleRecover
    /\ IdleMark
    /\ IdleFile
    /\ o_pc = "start"
    /\ n_debs \in DebCounts
    /\ errs_install \in PhaseStreams
    /\ errs_configure \in PhaseStreams
    /\ options = <<>>
    /\ o_failed_debs = {}
    /\ o_failed_packages = {}

\* lines 397-408: the option, dpkg -i under tee_process, its stderr parsed
DpkgInstall ==
    /\ o_pc = "start"
    /\ options' = Append(options, [command |-> "dpkg -i",
                                   abort_after |-> max_error_count(n_debs)])
    /\ LET st == get_dpkg_failures(errs_install, Artifacts \cup {OtherDeb})
       IN IF st.raised
          THEN /\ o_pc' = "AssertionError"
               /\ UNCHANGED <<o_failed_debs, o_failed_packages>>
          ELSE /\ o_pc' = "installed"
               /\ o_failed_debs' = st.debs
               /\ o_failed_packages' = st.packages
    /\ UNCHANGED <<n_debs, errs_install, errs_configure>>
    /\ UNCHANGED <<tee_vars, parser_vars, loop_vars, stage_vars, pass_vars, cls_vars,
                   main_vars, recover_vars, mark_vars, file_vars>>

\* lines 410-420: dpkg --configure -a with the same option, its stderr parsed,
\* the two results united and returned
DpkgConfigure ==
    /\ o_pc = "installed"
    /\ options' = Append(options, [command |-> "dpkg --configure -a",
                                   abort_after |-> max_error_count(n_debs)])
    /\ LET st == get_dpkg_failures(errs_configure, Artifacts \cup {OtherDeb})
       IN IF st.raised
          THEN /\ o_pc' = "AssertionError"
               /\ UNCHANGED <<o_failed_debs, o_failed_packages>>
          ELSE /\ o_pc' = "returned"
               /\ o_failed_debs' = update(o_failed_debs, st.debs)
               /\ o_failed_packages' = update(o_failed_packages, st.packages)
    /\ UNCHANGED <<n_debs, errs_install, errs_configure>>
    /\ UNCHANGED <<tee_vars, parser_vars, loop_vars, stage_vars, pass_vars, cls_vars,
                   main_vars, recover_vars, mark_vars, file_vars>>

OneNext == DpkgInstall \/ DpkgConfigure

SpecOne == OneInit /\ [][OneNext]_vars

---------------------------------------------------------------------------
(* The target classifier: utils/apt.py and Crossgrader.list_first_stage_targets *)

\* an apt.package.Package, as far as the classifier reads it: its key in the
\* cache (shortname:architecture), is_installed, installed.architecture,
\* installed.priority and candidate.architecture ("none" where there is none)
Package(shortname, architecture, is_installed, inst_arch, priority, cand_arch) ==
    [shortname |-> shortname, architecture |-> architecture,
     is_installed |-> is_installed, inst_arch |-> inst_arch,
     priority |-> priority, cand_arch |-> cand_arch]

\* apt_cache[name:arch]: the package of that key; none is a KeyError
CacheGet(cache, pkg_name, arch) ==
    {p \in cache : p.shortname = pkg_name /\ p.architecture = arch}

\* for fullname in get_package_fullnames(): yield apt_cache[fullname]
iter_package_objs(cache, fnames) ==
    UNION {CacheGet(cache, f[1], f[2]) : f \in fnames}

\* for name in names.split(', '): the names the cache does not know (diversions)
\* are passed over
RECURSIVE NamesOfLine(_, _, _)
NamesOfLine(cache, line_names, filename) ==
    IF line_names = <<>> THEN <<>>
    ELSE LET found == CacheGet(cache, Head(line_names)[1], Head(line_names)[2])
             rest == NamesOfLine(cache, Tail(line_names), filename)
         IN IF found = {} THEN rest
            ELSE << <<CHOOSE p \in found : TRUE, filename>> >> \o rest

\* the (package, filename) pairs of the lines dpkg-query -S printed
RECURSIVE iter_packages_containing_files(_, _)
iter_packages_containing_files(cache, query_out_lines) ==
    IF query_out_lines = <<>> THEN <<>>
    ELSE NamesOfLine(cache, Head(query_out_lines).names, Head(query_out_lines).filename)
         \o iter_packages_containing_files(cache, Tail(query_out_lines))

KeepPackage_Always(ign_installed, package) == TRUE

\* if not ignore_installed or not package.is_installed: packages.append(package)
KeepPackage(ign_installed, package) == ~ign_installed \/ ~package.is_installed

\* the body of find_package_objs's loop, on the names still to look up; a name
\* is <<pkg_name>> or, written with a colon, <<pkg_name, arch>>
RECURSIVE FindRun(_, _, _, _, _, _)
FindRun(st, nms, cache, default_arch, ign_unavailable, ign_installed) ==
    IF nms = <<>> \/ st.raised # "none" THEN st
    ELSE LET name == Head(nms)
             pkg_name == name[1]
             arch == IF Len(name) = 2 THEN name[2] ELSE default_arch
             found == CacheGet(cache, pkg_name, arch)
             package == CHOOSE p \in found : TRUE
             after ==
                 IF found # {}
                 THEN IF KeepPackage(ign_installed, package)
                      THEN [st EXCEPT !.packages = Append(@, package)]
                      ELSE st
                 ELSE IF ~ign_unavailable
                      THEN [st EXCEPT !.raised = "PackageNotFoundError",
                                      !.package = <<pkg_name, arch>>]
                      ELSE [st EXCEPT !.skipped = @ \cup {<<pkg_name, arch>>}]
         IN FindRun(after, Tail(nms), cache, default_arch, ign_unavailable, ign_installed)

\* find_package_objs: the list it returns, or the PackageNotFoundError it
\* raises; skipped are the names it printed "Couldn't find ..., ignoring" for
find_package_objs(nms, cache, default_arch, ign_unavailable, ign_installed) ==
    LET st == FindRun(NoOut, nms, cache, default_arch, ign_unavailable, ign_installed)
    IN IF st.raised # "none" THEN [st EXCEPT !.packages = <<>>] ELSE st

is_first_stage_target_AnyArch(package) ==
    IF ~package.is_installed THEN FALSE
    ELSE IF package.priority \in {"required", "important"} THEN TRUE
    ELSE FALSE

is_first_stage_target_RequiredOnly(package) ==
    IF ~package.is_installed THEN FALSE
    ELSE IF package.inst_arch \in {"all", TargetArch} THEN FALSE
    ELSE IF package.priority \in {"required"} THEN TRUE
    ELSE FALSE

\* _is_first_stage_target
is_first_stage_target(package) ==
    IF ~package.is_installed THEN FALSE
    ELSE IF package.inst_arch \in {"all", TargetArch} THEN FALSE
    ELSE IF package.priority \in {"required", "important"} THEN TRUE
    ELSE FALSE

\* the architecture the hook and shell loops read off a package: the candidate's
\* if it is marked as not fully installed, else the installed version's
OwnerArchitecture(package) ==
    IF ~package.is_installed THEN package.cand_arch ELSE package.inst_arch

\* the loop of _get_initramfs_hook_packages over the (package, hook_file) pairs
RECURSIVE HookRun(_, _)
HookRun(st, hook_pkgs) ==
    IF hook_pkgs = <<>> THEN st
    ELSE LET package == Head(hook_pkgs)[1]
             hook_file == Head(hook_pkgs)[2]
             after ==
                 IF hook_file \notin st.unaccounted_hooks THEN st
                 ELSE [unaccounted_hooks |-> st.unaccounted_hooks \ {hook_file},
                       out_names |->
                           IF OwnerArchitecture(package) \notin {"all", TargetArch}
                           THEN st.out_names \cup {package.shortname}
                           ELSE st.out_names]
         IN HookRun(after, Tail(hook_pkgs))

RemnantsRaise_Never(unaccounted_hooks, ign_remnants) == FALSE

\* if unaccounted_hooks and not ignore_initramfs_remnants: raise
RemnantsRaise(unaccounted_hooks, ign_remnants) ==
    unaccounted_hooks # {} /\ ~ign_remnants

\* _get_initramfs_hook_packages: out_names, or the RemnantInitramfsHooksError
\* it raises with the hooks left unaccounted
get_initramfs_hook_packages(cache, on_disk, query_out_lines, ign_remnants) ==
    LET st == HookRun([unaccounted_hooks |-> on_disk, out_names |-> {}],
                      iter_packages_containing_files(cache, query_out_lines))
    IN IF RemnantsRaise(st.unaccounted_hooks, ign_remnants)
       THEN [raised |-> "RemnantInitramfsHooksError",
             hooks |-> st.unaccounted_hooks, out_names |-> {}]
       ELSE [raised |-> "none", hooks |-> {}, out_names |-> st.out_names]

FALLBACK_CROSSGRADER_DEPENDENCIES == {"python3", "python3-apt"}

\* ver.package.shortname for ver in dep.installed_target_versions if
\* ver.architecture not in ('all', target_arch), over the dependencies
DependencyTargets(cache, deps) ==
    {p.shortname : p \in {q \in cache : /\ q.shortname \in deps
                                        /\ q.is_installed
                                        /\ q.inst_arch \notin {"all", TargetArch}}}

CrossgraderTargets_UnknownOnly(cache, cg) ==
    IF ~cg.known THEN FALLBACK_CROSSGRADER_DEPENDENCIES
    ELSE DependencyTargets(cache, cg.dependencies)

\* the names list_first_stage_targets adds for the crossgrader's dependencies
CrossgraderTargets(cache, cg) ==
    IF ~cg.known THEN FALLBACK_CROSSGRADER_DEPENDENCIES
    ELSE IF ~cg.is_installed THEN FALLBACK_CROSSGRADER_DEPENDENCIES
    ELSE DependencyTargets(cache, cg.dependencies)

\* the names it adds for the packages that own a login shell
RECURSIVE ShellTargets(_)
ShellTargets(shell_pkgs) ==
    IF shell_pkgs = <<>> THEN {}
    ELSE LET package == Head(shell_pkgs)[1]
         IN (IF OwnerArchitecture(package) \notin {"all", TargetArch}
             THEN {package.shortname} ELSE {})
            \cup ShellTargets(Tail(shell_pkgs))

FirstStageNames_Once(cache, fnames, hook_out, cg, shell_lines) ==
    IF c_prev = None THEN {p.shortname : p \in cache} ELSE {}

\* the set targets of list_first_stage_targets as built before the call of
\* find_package_objs; hook_out is what _get_initramfs_hook_packages returned
FirstStageNames(cache, fnames, hook_out, cg, shell_lines) ==
    {p.shortname : p \in {q \in iter_package_objs(cache, fnames) :
                              is_first_stage_target(q)}}
    \cup hook_out.out_names
    \cup CrossgraderTargets(cache, cg)
    \cup ShellTargets(iter_packages_containing_files(cache, shell_lines))
    \cup {"sudo"}

\* the orders in which a loop may go through a set
RECURSIVE Orderings(_)
Orderings(S) ==
    IF S = {} THEN {<<>>}
    ELSE UNION {{<<x>> \o t : t \in Orderings(S \ {x})} : x \in S}

SeqToSet(s) == {s[i] : i \in DOMAIN s}

\* ---- the systems the classifier is run on ----

\* one ordinary package "pkg": where it is installed (nowhere; as "half", known
\* to dpkg but not fully installed; as Architecture: all; in the current
\* architecture; in the target one; in both), whether apt has a target
\* variant of it still to install, and the priority of what is installed
PkgProfiles ==
    {[inst |-> "none", avail |-> a, priority |-> "none"] : a \in BOOLEAN}
    \cup {[inst |-> "half", avail |-> TRUE, priority |-> "none"]}
    \cup {[inst |-> "all", avail |-> a, priority |-> p] :
              a \in BOOLEAN, p \in {"important", "optional"}}
    \cup {[inst |-> "cur", avail |-> a, priority |-> p] :
              a \in BOOLEAN, p \in {"required", "important", "optional"}}
    \cup {[inst |-> "tgt", avail |-> FALSE, priority |-> "important"],
          [inst |-> "both", avail |-> FALSE, priority |-> "important"]}

PkgObjects(n, pf) ==
    (IF pf.inst = "half"
     THEN {Package(n, CurrentArch, FALSE, "none", "none", CurrentArch)} ELSE {})
    \cup (IF pf.inst = "all"
          THEN {Package(n, "all", TRUE, "all", pf.priority, "all")} ELSE {})
    \cup (IF pf.inst \in {"cur", "both"}
          THEN {Package(n, CurrentArch, TRUE, CurrentArch, pf.priority, CurrentArch)}
          ELSE {})
    \cup (IF pf.inst \in {"tgt", "both"}
          THEN {Package(n, TargetArch, TRUE, TargetArch, pf.priority, TargetArch)}
          ELSE {})
    \cup (IF pf.avail
          THEN {Package(n, TargetArch, FALSE, "none", "none", TargetArch)} ELSE {})

\* the name:architecture dpkg-query -W prints for it
PkgFullnames(n, pf) ==
    (IF pf.inst = "all" THEN {<<n, "all">>} ELSE {})
    \cup (IF pf.inst \in {"half", "cur", "both"} THEN {<<n, CurrentArch>>} ELSE {})
    \cup (IF pf.inst \in {"tgt", "both"} THEN {<<n, TargetArch>>} ELSE {})

\* sudo, python3 and python3-apt are architecture-dependent packages of
\* priority optional: crossgraded already ("installed"), installed in the
\* current architecture with a target variant to install ("available") or
\* with none ("unavailable")
ToolObjects(n, st) ==
    IF st = "installed"
    THEN {Package(n, TargetArch, TRUE, TargetArch, "optional", TargetArch)}
    ELSE {Package(n, CurrentArch, TRUE, CurrentArch, "optional", CurrentArch)}
         \cup (IF st = "available"
               THEN {Package(n, TargetArch, FALSE, "none", "none", TargetArch)}
               ELSE {})

ToolFullnames(n, st) ==
    IF st = "installed" THEN {<<n, TargetArch>>} ELSE {<<n, CurrentArch>>}

\* a name dpkg-query -S prints that is no package of the cache
Diversion == <<"diversion by dash from", "none">>

\* the owners dpkg-query -S may print on the line of one file: none (no line),
\* a diversion, or packages of dpkg's
OwnerLists(fnames) ==
    {<<>>, <<Diversion>>}
    \cup {<<f>> : f \in fnames}
    \cup {fg \in fnames \X fnames : fg[1] # fg[2]}

QueryLines(owners, filename) ==
    IF owners = <<>> THEN <<>> ELSE <<[names |-> owners, filename |-> filename]>>

Hook1 == "/usr/share/initramfs-tools/hooks/one"
Hook2 == "/usr/share/initramfs-tools/hooks/two"

Crossgraders ==
    {[known |-> FALSE, is_installed |-> FALSE, dependencies |-> {}],
     [known |-> TRUE, is_installed |-> FALSE, dependencies |-> {}],
     [known |-> TRUE, is_installed |-> TRUE, dependencies |-> {"python3"}],
     [known |-> TRUE, is_installed |-> TRUE, dependencies |-> {"python3", "pkg"}]}

\* the cache and dpkg's list of one system
System(pf, sudo_st, py_st, apt_st) ==
    [cache |-> PkgObjects("pkg", pf) \cup ToolObjects("sudo", sudo_st)
               \cup ToolObjects("python3", py_st)
               \cup ToolObjects("python3-apt", apt_st),
     fnames |-> PkgFullnames("pkg", pf) \cup ToolFullnames("sudo", sudo_st)
                \cup ToolFullnames("python3", py_st)
                \cup ToolFullnames("python3-apt", apt_st),
     pkg_fnames |-> PkgFullnames("pkg", pf)]

Systems ==
    {System(pf, sudo_st, py_st, apt_st) :
         pf \in PkgProfiles,
         sudo_st \in {"unavailable", "available", "installed"},
         py_st \in {"available", "installed"},
         apt_st \in {"available", "installed"}}

ClassifyInit ==
    /\ IdleTee
    /\ IdleParser
    /\ IdleLoop
    /\ IdleStage
    /\ IdlePass
    /\ IdleMain
    /\ IdleRest
    /\ \E sys \in Systems :
          /\ apt_cache = sys.cache
          /\ fullnames = sys.fnames
          /\ \E owners \in OwnerLists(sys.pkg_fnames), one \in BOOLEAN, two \in BOOLEAN :
                /\ hook_glob = (IF one THEN {Hook1} ELSE {}) \cup (IF two THEN {Hook2} ELSE {})
                /\ hook_query = QueryLines(owners, Hook1)
          /\ \E owners \in {<<>>} \cup {<<f>> : f \in sys.pkg_fnames} :
                shell_query = QueryLines(owners, "/bin/sh")
    /\ crossgrader \in Crossgraders
    /\ ignore_initramfs_remnants \in BOOLEAN
    /\ ignore_unavailable_targets \in BOOLEAN
    /\ names = <<>>
    /\ ignore_installed = FALSE
    /\ c_done = FALSE
    /\ c_out = NoOut
    /\ c_fn = "none"
    /\ c_prev = None

\* list_first_stage_targets: the RemnantInitramfsHooksError goes through it;
\* the set targets is gone through in some order by find_package_objs; the
\* list it returns is kept as the collection it is used as
ListFirstStageTargets ==
    /\ ~c_done
    /\ c_fn \in {"none", "first"}
    /\ c_fn' = "first"
    /\ names = <<>>
    /\ LET hook_out == get_initramfs_hook_packages(apt_cache, hook_glob, hook_query,
                                                   ignore_initramfs_remnants)
           targets == FirstStageNames(apt_cache, fullnames, hook_out, crossgrader,
                                      shell_query)
       IN IF hook_out.raised # "none"
          THEN c_out' = [NoOut EXCEPT !.raised = hook_out.raised,
                                      !.hooks = hook_out.hooks,
                                      !.packages = {}]
          ELSE \E order \in Orderings(targets) :
                  LET out == find_package_objs([i \in DOMAIN order |-> <<order[i]>>],
                                               apt_cache, TargetArch,
                                               ignore_unavailable_targets, TRUE)
                  IN c_out' = [out EXCEPT !.packages = SeqToSet(@),
                                          !.targets = targets]
    /\ c_done' = TRUE
    /\ UNCHANGED <<apt_cache, fullnames, hook_glob, hook_query, shell_query, crossgrader,
                   ignore_initramfs_remnants, ignore_unavailable_targets, names,
                   ignore_installed, c_prev>>
    /\ UNCHANGED <<tee_vars, parser_vars, loop_vars, stage_vars, pass_vars, main_vars,
                   rest_vars>>

ClassifyNext == ListFirstStageTargets

SpecClassify == ClassifyInit /\ [][ClassifyNext]_vars

\* ---- _get_initramfs_hook_packages on its own ----

\* _get_initramfs_hook_packages(ignore_initramfs_remnants) on the systems of
\* the classifier; out_names is kept in c_out.targets
GetInitramfsHookPackages ==
    /\ ~c_done
    /\ c_fn = "none"
    /\ c_fn' = "hooks"
    /\ LET out == get_initramfs_hook_packages(apt_cache, hook_glob, hook_query,
                                              ignore_initramfs_remnants)
       IN c_out' = [NoOut EXCEPT !.raised = out.raised,
                                 !.hooks = out.hooks,
                                 !.targets = out.out_names]
    /\ c_done' = TRUE
    /\ UNCHANGED <<apt_cache, fullnames, hook_glob, hook_query, shell_query, crossgrader,
                   ignore_initramfs_remnants, ignore_unavailable_targets, names,
                   ignore_installed, c_prev>>
    /\ UNCHANGED <<tee_vars, parser_vars, loop_vars, stage_vars, pass_vars, main_vars,
                   rest_vars>>

HooksNext == GetInitramfsHookPackages

SpecHooks == ClassifyInit /\ [][HooksNext]_vars

\* ---- find_package_objs on its own, as first_stage and the classifier call it ----

WantedNames == {"pkg", "sudo", "python3"}

FindInit ==
    /\ IdleTee
    /\ IdleParser
    /\ IdleLoop
    /\ IdleStage
    /\ IdlePass
    /\ IdleMain
    /\ IdleRest
    /\ \E sys \in Systems :
          /\ apt_cache = sys.cache
          /\ fullnames = sys.fnames
    /\ hook_glob = {}
    /\ hook_query = <<>>
    /\ shell_query = <<>>
    /\ crossgrader = [known |-> FALSE, is_installed |-> FALSE, dependencies |-> {}]
    /\ ignore_initramfs_remnants = FALSE
    /\ ignore_unavailable_targets \in BOOLEAN
    /\ \E wanted \in SUBSET WantedNames :
          \E order \in Orderings(wanted) :
             names = [i \in DOMAIN order |-> <<order[i]>>]
    /\ ignore_installed \in BOOLEAN
    /\ c_done = FALSE
    /\ c_out = NoOut
    /\ c_fn = "none"
    /\ c_prev = None

\* find_package_objs(names, default_arch=target_arch, ...)
FindPackageObjs ==
    /\ ~c_done
    /\ c_out' = find_package_objs(names, apt_cache, TargetArch,
                                  ignore_unavailable_targets, ignore_installed)
    /\ c_done' = TRUE
    /\ UNCHANGED <<apt_cache, fullnames, hook_glob, hook_query, shell_query, crossgrader,
                   ignore_initramfs_remnants, ignore_unavailable_targets, names,
                   ignore_installed, c_fn, c_prev>>
    /\ UNCHANGED <<tee_vars, parser_vars, loop_vars, stage_vars, pass_vars, main_vars,
                   rest_vars>>

FindNext == FindPackageObjs

SpecFind == FindInit /\ [][FindNext]_vars

\* ---- list_second_stage_targets ----

SecondStageNames_AnyArch(cache, fnames) ==
    {p.shortname : p \in {q \in iter_package_objs(cache, fnames) : q.is_installed}}

\* the set targets of list_second_stage_targets: the installed packages whose
\* architecture is neither 'all' nor the target one
SecondStageNames(cache, fnames) ==
    {p.shortname : p \in {q \in iter_package_objs(cache, fnames) :
                              /\ q.is_installed
                              /\ q.inst_arch \notin {"all", TargetArch}}}

SecondInit ==
    /\ IdleTee
    /\ IdleParser
    /\ IdleLoop
    /\ IdleStage
    /\ IdlePass
    /\ IdleMain
    /\ IdleRest
    /\ \E sys \in Systems :
          /\ apt_cache = sys.cache
          /\ fullnames = sys.fnames
    /\ hook_glob = {}
    /\ hook_query = <<>>
    /\ shell_query = <<>>
    /\ crossgrader = [known |-> FALSE, is_installed |-> FALSE, dependencies |-> {}]
    /\ ignore_initramfs_remnants = FALSE
    /\ ignore_unavailable_targets \in BOOLEAN
    /\ names = <<>>
    /\ ignore_installed = FALSE
    /\ c_done = FALSE
    /\ c_out = NoOut
    /\ c_fn = "none"
    /\ c_prev = None

\* list_second_stage_targets, its set gone through in some order
ListSecondStageTargets ==
    /\ ~c_done
    /\ c_fn \in {"none", "second"}
    /\ c_fn' = "second"
    /\ names = <<>>
    /\ LET targets == SecondStageNames(apt_cache, fullnames)
       IN \E order \in Orderings(targets) :
             LET out == find_package_objs([i \in DOMAIN order |-> <<order[i]>>],
                                          apt_cache, TargetArch,
                                          ignore_unavailable_targets, TRUE)
             IN c_out' = [out EXCEPT !.packages = SeqToSet(@),
                                     !.targets = targets]
    /\ c_done' = TRUE
    /\ UNCHANGED <<apt_cache, fullnames, hook_glob, hook_query, shell_query, crossgrader,
                   ignore_initramfs_remnants, ignore_unavailable_targets, names,
                   ignore_installed, c_prev>>
    /\ UNCHANGED <<tee_vars, parser_vars, loop_vars, stage_vars, pass_vars, main_vars,
                   rest_vars>>

SecondNext == ListSecondStageTargets

SpecSecond == SecondInit /\ [][SecondNext]_vars

\* ---- a classifier called twice on one system ----

TwiceInit ==
    /\ IdleTee
    /\ IdleParser
    /\ IdleLoop
    /\ IdleStage
    /\ IdlePass
    /\ IdleMain
    /\ IdleRest
    /\ \E sys \in Systems :
          /\ apt_cache = sys.cache
          /\ fullnames = sys.fnames
          /\ \E owners \in OwnerLists(sys.pkg_fnames), one \in BOOLEAN :
                /\ hook_glob = IF one THEN {Hook1} ELSE {}
                /\ hook_query = QueryLines(owners, Hook1)
    /\ shell_query = <<>>
    /\ crossgrader \in {cg \in Crossgraders : cg.dependencies = {}}
    /\ ignore_initramfs_remnants \in BOOLEAN
    /\ ignore_unavailable_targets \in BOOLEAN
    /\ names = <<>>
    /\ ignore_installed = FALSE
    /\ c_done = FALSE
    /\ c_out = NoOut
    /\ c_fn = "none"
    /\ c_prev = None

\* the program is run once more on the system as it is
CallAgain ==
    /\ c_done
    /\ c_prev = None
    /\ c_prev' = Some(c_out)
    /\ c_done' = FALSE
    /\ c_out' = NoOut
    /\ UNCHANGED <<apt_cache, fullnames, hook_glob, hook_query, shell_query, crossgrader,
                   ignore_initramfs_remnants, ignore_unavailable_targets, names,
                   ignore_installed, c_fn>>
    /\ UNCHANGED <<tee_vars, parser_vars, loop_vars, stage_vars, pass_vars, main_vars,
                   rest_vars>>

TwiceNext == ListFirstStageTargets \/ ListSecondStageTargets \/ CallAgain

SpecTwice == TwiceInit /\ [][TwiceNext]_vars

---------------------------------------------------------------------------
(* main(): the Crossgrader object is built, then one stage runs *)

\* create_initramfs_arch_check, on what hook-functions holds: "absent" (no
\* file), "hooked" (the arch check is in it), "plain" (it has copy_exec and no
\* arch check) or "odd" (neither); the backup is written before copy_exec is
\* looked for
create_initramfs_arch_check(functions, bk) ==
    IF functions = "absent" THEN [hook_functions |-> functions, backup |-> bk]
    ELSE IF functions = "hooked" THEN [hook_functions |-> functions, backup |-> bk]
    ELSE IF functions = "odd" THEN [hook_functions |-> functions, backup |-> TRUE]
    ELSE [hook_functions |-> "hooked", backup |-> TRUE]

\* remove_initramfs_arch_check: the backup is copied back and removed
remove_initramfs_arch_check(functions, bk) ==
    IF functions = "absent" THEN [hook_functions |-> functions, backup |-> bk]
    ELSE IF ~bk THEN [hook_functions |-> functions, backup |-> bk]
    ELSE IF functions # "hooked" THEN [hook_functions |-> functions, backup |-> bk]
    ELSE [hook_functions |-> "plain", backup |-> FALSE]

\* get_arch_packages(arch)
get_arch_packages(fnames, arch) == {f \in fnames : f[2] = arch}

\* what third_stage hands to dpkg --purge: the full names of the architecture
\* that are not, as written, among args.packages
ThirdStageTargets(fnames, arch, excluded) ==
    IF excluded # {}
    THEN {pkg_name \in get_arch_packages(fnames, arch) : pkg_name \notin excluded}
    ELSE get_arch_packages(fnames, arch)

\* the names an operator may give after -p, with or without architecture
ExcludeNames == {<<"pkg">>, <<"pkg", CurrentArch>>, <<"sudo", CurrentArch>>}

\* exit statuses of arch-test -n
ArchTestCodes == {0, 1, 2, 3}

MainInit ==
    /\ IdleTee
    /\ IdleParser
    /\ IdleLoop
    /\ IdleStage
    /\ IdlePass
    /\ IdleRest
    /\ m_pc = "construct"
    /\ stage \in {"first", "second", "third", "install_from"}
    /\ args_dry_run \in BOOLEAN
    /\ args_packages \in IF stage = "third" THEN SUBSET ExcludeNames ELSE {{}}
    /\ foreign_arch \in IF stage = "third" THEN {CurrentArch, TargetArch} ELSE {"none"}
    /\ dpkg_archs \in {{}, {TargetArch}}
    /\ \E hf \in {<<"absent", FALSE>>, <<"plain", FALSE>>, <<"plain", TRUE>>,
                  <<"odd", FALSE>>, <<"hooked", FALSE>>, <<"hooked", TRUE>>} :
          /\ hook_functions = hf[1]
          /\ backup = hf[2]
    /\ storage_dir \in IF backup THEN {TRUE} ELSE BOOLEAN
    /\ purged = None
    /\ changed = {}
    /\ apt_cache = {}
    /\ fullnames \in {sys.fnames : sys \in {y \in Systems :
                         ToolFullnames("python3", "available") \subseteq y.fnames
                         /\ ToolFullnames("python3-apt", "available") \subseteq y.fnames}}
    /\ hook_glob = {}
    /\ hook_query = <<>>
    /\ shell_query = <<>>
    /\ crossgrader = [known |-> FALSE, is_installed |-> FALSE, dependencies |-> {}]
    /\ ignore_initramfs_remnants = FALSE
    /\ ignore_unavailable_targets = FALSE
    /\ names = <<>>
    /\ ignore_installed = FALSE
    /\ c_done = FALSE
    /\ c_out = NoOut
    /\ c_fn = "none"
    /\ c_prev = None

\* Crossgrader.__init__ (with Crossgrader(args.target_arch) as crossgrader):
\* makedirs, the architecture checked and added, arch-test, the arch check
\* hook, the update of apt's lists; --dry-run is not looked at
Construct ==
    /\ m_pc = "construct"
    /\ \E superuser \in BOOLEAN, valid \in BOOLEAN, arch_test_ret \in ArchTestCodes,
          support_with_emu \in BOOLEAN :
          IF ~superuser /\ ~storage_dir
          THEN /\ m_pc' = "PermissionError"
               /\ UNCHANGED <<storage_dir, dpkg_archs, hook_functions, backup, changed>>
          ELSE /\ storage_dir' = TRUE
               /\ IF ~valid
                  THEN /\ m_pc' = "InvalidArchitectureError"
                       /\ UNCHANGED <<dpkg_archs, hook_functions, backup, changed>>
                  ELSE IF ~superuser
                  THEN /\ m_pc' = "CalledProcessError"
                       /\ UNCHANGED <<dpkg_archs, hook_functions, backup, changed>>
                  ELSE /\ dpkg_archs' = dpkg_archs \cup {TargetArch}
                       /\ IF arch_test_ret = 1 /\ ~support_with_emu
                          THEN /\ m_pc' = "InvalidArchitectureError"
                               /\ UNCHANGED <<hook_functions, backup, changed>>
                          ELSE IF arch_test_ret \notin {0, 1, 2}
                          THEN /\ m_pc' = "CrossgradingError"
                               /\ UNCHANGED <<hook_functions, backup, changed>>
                          ELSE LET hook == create_initramfs_arch_check(hook_functions, backup)
                               IN /\ hook_functions' = hook.hook_functions
                                  /\ backup' = hook.backup
                                  /\ changed' = changed \cup {"apt_update"}
                                  /\ m_pc' = "stage"
    /\ UNCHANGED <<stage, args_dry_run, args_packages, foreign_arch, purged>>
    /\ UNCHANGED <<tee_vars, parser_vars, loop_vars, stage_vars, pass_vars, cls_vars,
                   rest_vars>>

\* first_stage, its steps after the listing taken together: what it does to the
\* system is debs fetched and, unless --download-only, packages installed
FirstStage ==
    /\ m_pc = "stage"
    /\ stage = "first"
    /\ \/ /\ m_pc' \in {"PackageNotFoundError", "RemnantInitramfsHooksError"}
          /\ UNCHANGED changed
       \/ /\ args_dry_run
          /\ m_pc' = "returned"
          /\ UNCHANGED changed
       \/ /\ ~args_dry_run
          /\ \E cont \in BOOLEAN, download_only \in BOOLEAN :
                IF ~cont
                THEN /\ m_pc' = "returned"
                     /\ UNCHANGED changed
                ELSE /\ changed' = changed \cup {"fetch"}
                                   \cup (IF download_only THEN {} ELSE {"install"})
                     /\ m_pc' \in {"returned", "NotEnoughSpaceError",
                                   "PackageInstallationError"}
    /\ UNCHANGED <<stage, args_dry_run, args_packages, foreign_arch, dpkg_archs,
                   hook_functions, backup, storage_dir, purged>>
    /\ UNCHANGED <<tee_vars, parser_vars, loop_vars, stage_vars, pass_vars, cls_vars,
                   rest_vars>>

\* second_stage, likewise: the saved qemu debs installed and their directory
\* removed, then the targets fetched and installed
SecondStage ==
    /\ m_pc = "stage"
    /\ stage = "second"
    /\ \E qemu_saved \in BOOLEAN, cont_qemu \in BOOLEAN :
          LET qemu == IF qemu_saved /\ ~args_dry_run /\ cont_qemu
                      THEN {"install", "rmdir"} ELSE {}
          IN \/ /\ qemu # {}
                /\ m_pc' = "PackageInstallationError"
                /\ changed' = changed \cup {"install"}
             \/ /\ m_pc' = "PackageNotFoundError"
                /\ changed' = changed \cup qemu
             \/ /\ args_dry_run
                /\ m_pc' = "returned"
                /\ changed' = changed \cup qemu
             \/ /\ ~args_dry_run
                /\ \E cont \in BOOLEAN, download_only \in BOOLEAN :
                      IF ~cont
                      THEN /\ m_pc' = "returned"
                           /\ changed' = changed \cup qemu
                      ELSE /\ changed' = changed \cup qemu \cup {"fetch"}
                                         \cup (IF download_only THEN {} ELSE {"install"})
                           /\ m_pc' \in {"returned", "NotEnoughSpaceError",
                                         "PackageInstallationError"}
    /\ UNCHANGED <<stage, args_dry_run, args_packages, foreign_arch, dpkg_archs,
                   hook_functions, backup, storage_dir, purged>>
    /\ UNCHANGED <<tee_vars, parser_vars, loop_vars, stage_vars, pass_vars, cls_vars,
                   rest_vars>>

\* third_stage: the targets listed, the operator asked, the return of --dry-run,
\* dpkg --purge (check_call raises if it fails), then the arch check hook removed
ThirdStage ==
    /\ m_pc = "stage"
    /\ stage = "third"
    /\ LET targets == ThirdStageTargets(fullnames, foreign_arch, args_packages)
       IN \E cont \in BOOLEAN :
             IF args_dry_run \/ ~cont
             THEN /\ m_pc' = "returned"
                  /\ UNCHANGED <<fullnames, purged, hook_functions, backup, changed>>
             ELSE \E gone \in SUBSET targets, ret_code \in ExitCodes :
                     /\ purged' = Some(targets)
                     /\ fullnames' = fullnames \ gone
                     /\ changed' = changed \cup {"purge"}
                     /\ IF ret_code # 0
                        THEN /\ m_pc' = "CalledProcessError"
                             /\ UNCHANGED <<hook_functions, backup>>
                        ELSE LET hook == remove_initramfs_arch_check(hook_functions, backup)
                             IN /\ hook_functions' = hook.hook_functions
                                /\ backup' = hook.backup
                                /\ m_pc' = "returned"
    /\ UNCHANGED <<stage, args_dry_run, args_packages, foreign_arch, dpkg_archs,
                   storage_dir>>
    /\ UNCHANGED <<apt_cache, hook_glob, hook_query, shell_query, crossgrader,
                   ignore_initramfs_remnants, ignore_unavailable_targets, names,
                   ignore_installed, c_done, c_out, c_fn, c_prev>>
    /\ UNCHANGED <<tee_vars, parser_vars, loop_vars, stage_vars, pass_vars, rest_vars>>

\* install_from: the debs of the directory listed, the return of --dry-run, the
\* operator asked, install_packages(debs)
InstallFrom ==
    /\ m_pc = "stage"
    /\ stage = "install_from"
    /\ \/ /\ args_dry_run
          /\ m_pc' = "returned"
          /\ UNCHANGED changed
       \/ /\ ~args_dry_run
          /\ \E cont \in BOOLEAN :
                IF ~cont
                THEN /\ m_pc' = "returned"
                     /\ UNCHANGED changed
                ELSE /\ changed' = changed \cup {"install"}
                     /\ m_pc' \in {"returned", "PackageInstallationError"}
    /\ UNCHANGED <<stage, args_dry_run, args_packages, foreign_arch, dpkg_archs,
                   hook_functions, backup, storage_dir, purged>>
    /\ UNCHANGED <<tee_vars, parser_vars, loop_vars, stage_vars, pass_vars, cls_vars,
                   rest_vars>>

MainNext == Construct \/ FirstStage \/ SecondStage \/ ThirdStage \/ InstallFrom

SpecMain == MainInit /\ [][MainNext]_vars

---------------------------------------------------------------------------
(* _fix_dpkg_errors, command by command *)

(* The second step of the recovery with the packages it acts on: what dpkg  *)
(* knows is drawn beforehand, each exit code and each answer of the operator *)
(* when the command runs. f_log records every dpkg --remove, every prompt    *)
(* and every deletion of a prerm script, in the order they happen.           *)

\* the names an error list can hold: with the architecture, and without
FailedNames ==
    {<<"libfoo", CurrentArch>>, <<"libfoo", TargetArch>>, <<"pkg", CurrentArch>>,
     <<"libfoo">>}

\* the packages dpkg-query -W can list
DbNames ==
    {<<"libfoo", CurrentArch>>, <<"libfoo", TargetArch>>, <<"pkg", CurrentArch>>,
     <<"pkg", TargetArch>>}

\* what the operator can type at the prompt; "EOF" is a closed stdin
Answers == {"y", "Y", "", "n", "yes"}

\* str.lower()
lower(answer) == IF answer = "Y" THEN "y" ELSE answer

multiarch_same_Always(package) == TRUE

\* lines 301-305: 'Multi-Arch: same' in the stdout of dpkg -s package; dpkg -s
\* prints no status of a package it does not know
multiarch_same(package) ==
    /\ package[1] \in ma_same
    /\ \E f \in dpkg_db : f[1] = package[1] /\ (Len(package) = 2 => f = package)

\* lines 311-315: dpkg-query -f '${Package}:${Architecture}\n' -W short_name
coinstalled_of(short_name) == {f \in dpkg_db : f[1] = short_name}

\* line 334: os.path.isfile(prerm_script)
isfile(coinstalled_package) == coinstalled_package \in prerm_scripts

Confirmed_Always(cont) == TRUE

\* line 337: cont == 'y' or not cont
Confirmed(cont) == cont = "y" \/ cont = ""

\* an entry of f_log: the command or call, the package it is about, the
\* failed package whose variants are being removed, and the exit code or the
\* answer (None and "-" where there is none)
Event(op, coinstalled_package, ret_code, answer) ==
    [op |-> op, package |-> coinstalled_package, of |-> f_cur[1],
     ret |-> ret_code, answer |-> answer]

\* a dpkg --remove that exited with 0: the package's scripts are gone; dpkg
\* still lists the package if it keeps configuration files
Removal(coinstalled_package) ==
    /\ dpkg_db' \in {dpkg_db \ {coinstalled_package}, dpkg_db}
    /\ prerm_scripts' = prerm_scripts \ {coinstalled_package}

RecoverInit ==
    /\ IdleTee
    /\ IdleParser
    /\ IdleLoop
    /\ IdleStage
    /\ IdlePass
    /\ IdleCls
    /\ IdleMain
    /\ IdleOne
    /\ IdleMark
    /\ IdleFile
    /\ f_pc = "start"
    /\ f_packages \in SUBSET FailedNames
    /\ dpkg_db \in SUBSET DbNames
    /\ ma_same \in SUBSET {"libfoo"}
    /\ prerm_scripts \in SUBSET dpkg_db
    /\ f_todo = {}
    /\ f_cur = None
    /\ f_co = {}
    /\ f_log = <<>>
    /\ f_ret = None

\* lines 288-298: nothing to fix, or the first apt-get install -f -y
FixBegin ==
    /\ f_pc = "start"
    /\ IF f_packages = {}
          THEN /\ f_ret' = Some(TRUE)
               /\ f_pc' = "returned"
               /\ UNCHANGED f_todo
          ELSE \E ret_code \in ExitCodes :
                  IF ret_code = 0
                     THEN /\ f_ret' = Some(TRUE)
                          /\ f_pc' = "returned"
                          /\ UNCHANGED f_todo
                     ELSE /\ f_pc' = "for_package"
                          /\ f_todo' = f_packages
                          /\ UNCHANGED f_ret
    /\ UNCHANGED <<f_packages, dpkg_db, ma_same, prerm_scripts, f_cur, f_co, f_log>>
    /\ UNCHANGED <<tee_vars, parser_vars, loop_vars, stage_vars, pass_vars, cls_vars,
                   main_vars, one_vars, mark_vars, file_vars>>

\* lines 300-315: the next package of the for loop: dpkg -s, the test for
\* Multi-Arch: same, the assert, dpkg-query (check_output raises if it fails)
ForPackage ==
    /\ f_pc = "for_package"
    /\ IF f_todo = {}
          THEN /\ f_pc' = "configure"
               /\ UNCHANGED <<f_todo, f_cur, f_co>>
          ELSE \E package \in f_todo :
                  /\ f_todo' = f_todo \ {package}
                  /\ IF ~multiarch_same(package)
                        THEN UNCHANGED <<f_pc, f_cur, f_co>>
                        ELSE IF Len(package) # 2
                                THEN /\ f_pc' = "AssertionError"
                                     /\ UNCHANGED <<f_cur, f_co>>
                                ELSE \/ /\ f_pc' = "CalledProcessError"
                                        /\ UNCHANGED <<f_cur, f_co>>
                                     \/ /\ f_pc' = "for_coinstalled"
                                        /\ f_cur' = Some(package)
                                        /\ f_co' = coinstalled_of(package[1])
    /\ UNCHANGED <<f_packages, dpkg_db, ma_same, prerm_scripts, f_log, f_ret>>
    /\ UNCHANGED <<tee_vars, parser_vars, loop_vars, stage_vars, pass_vars, cls_vars,
                   main_vars, one_vars, mark_vars, file_vars>>

\* lines 316-342: the next coinstalled package: skipped if it is the package
\* itself, else dpkg --remove --force-depends; if that fails and the package
\* has a prerm script the operator is asked, and on 'y' or an empty answer
\* the script is deleted and the removal run once more
ForCoinstalled ==
    /\ f_pc = "for_coinstalled"
    /\ IF f_co = {}
          THEN /\ f_pc' = "for_package"
               /\ f_cur' = None
               /\ UNCHANGED <<f_co, dpkg_db, prerm_scripts, f_log>>
          ELSE \E coinstalled_package \in f_co :
             /\ f_co' = f_co \ {coinstalled_package}
             /\ IF coinstalled_package = f_cur[1]
                THEN UNCHANGED <<f_pc, f_cur, dpkg_db, prerm_scripts, f_log>>
                ELSE \E ret_code \in ExitCodes :
                   LET removal == <<Event("dpkg --remove", coinstalled_package,
                                          Code(ret_code), "-")>>
                   IN
                   IF ret_code = 0
                   THEN /\ Removal(coinstalled_package)
                        /\ f_log' = f_log \o removal
                        /\ UNCHANGED <<f_pc, f_cur>>
                   ELSE IF ~isfile(coinstalled_package)
                   THEN /\ f_log' = f_log \o removal
                        /\ UNCHANGED <<f_pc, f_cur, dpkg_db, prerm_scripts>>
                   ELSE \E answer \in Answers \cup {"EOF"} :
                      LET asked == removal \o <<Event("input", coinstalled_package,
                                                      None, answer)>>
                      IN
                      IF answer = "EOF"
                      THEN /\ f_pc' = "EOFError"
                           /\ f_log' = f_log \o asked
                           /\ UNCHANGED <<f_cur, dpkg_db, prerm_scripts>>
                      ELSE IF Confirmed(lower(answer))
                      THEN \E again \in ExitCodes :
                              /\ f_log' = f_log \o asked
                                    \o <<Event("os.remove", coinstalled_package, None, "-"),
                                         Event("dpkg --remove", coinstalled_package,
                                               Code(again), "-")>>
                              /\ IF again = 0
                                    THEN Removal(coinstalled_package)
                                    ELSE /\ prerm_scripts' =
                                               prerm_scripts \ {coinstalled_package}
                                         /\ UNCHANGED dpkg_db
                              /\ UNCHANGED <<f_pc, f_cur>>
                      ELSE /\ f_log' = f_log \o asked
                           /\ UNCHANGED <<f_pc, f_cur, dpkg_db, prerm_scripts>>
    /\ UNCHANGED <<f_packages, ma_same, f_todo, f_ret>>
    /\ UNCHANGED <<tee_vars, parser_vars, loop_vars, stage_vars, pass_vars, cls_vars,
                   main_vars, one_vars, mark_vars, file_vars>>

\* lines 344-354: dpkg --configure -a, then the second apt-get install -f
FixEnd ==
    /\ f_pc = "configure"
    /\ \E configure_ret \in ExitCodes, fix_ret \in ExitCodes :
          f_ret' = Some(configure_ret = 0 /\ fix_ret = 0)
    /\ f_pc' = "returned"
    /\ UNCHANGED <<f_packages, dpkg_db, ma_same, prerm_scripts, f_todo, f_cur, f_co,
                   f_log>>
    /\ UNCHANGED <<tee_vars, parser_vars, loop_vars, stage_vars, pass_vars, cls_vars,
                   main_vars, one_vars, mark_vars, file_vars>>

RecoverNext == FixBegin \/ ForPackage \/ ForCoinstalled \/ FixEnd

SpecRecover == RecoverInit /\ [][RecoverNext]_vars

---------------------------------------------------------------------------
(* Claims on tee_process *)

\* C2: when tee_process returns, the text it returns for each piped stream is
\* everything the child wrote to that stream.
C2_ReturnsAllWritten ==
    t_pc = "done" =>
        /\ "stdout" \in process_outs => t_ret.stdout = written["stdout"]
        /\ "stderr" \in process_outs => t_ret.stderr = written["stderr"]

\* the child is inside write() on a pipe that is full
Blocked(s) ==
    /\ child = "running"
    /\ child_want = s
    /\ s \in process_outs
    /\ Len(pipe[s]) = PipeCap

\* C3: whenever the child is blocked writing to a full pipe, stdout or stderr,
\* the parent eventually empties that pipe; and once the child has exited,
\* tee_process eventually returns.
C3_NoPipeDeadlock ==
    /\ \A s \in Streams : Blocked(s) ~> (pipe[s] = <<>>)
    /\ (child = "exited") ~> (t_pc = "done")

\* C3 witness: the child wrote more than a pipe holds to stderr and nothing to
\* stdout, both being pipes, and tee_process has returned
C3_Witness ==
    /\ process_outs = Streams
    /\ written["stdout"] = <<>>
    /\ Len(written["stderr"]) > PipeCap
    /\ t_pc = "done"

---------------------------------------------------------------------------
(* Claims on the convergence loop *)

\* the loop has returned or raised
Terminal == {"returned", "PackageInstallationError", "AssertionError",
             "FileNotFoundError"}

\* a pass has been started and its outcome is not yet judged
InPass == pc \in {"dpkg_install", "dpkg_configure", "remove", "check"}

\* a list as the caller sees it: None counts as no element
ListOf(v) == IF v = None THEN {} ELSE v[1]

\* C1: the loop terminates: the number of passes started plus the number of
\* artifacts still to retry never exceeds the size of the initial set (plus
\* one from the start of a pass until the loop test that follows it), the
\* judgement of a pass either leaves a strictly smaller remaining set or ends
\* the loop, and nothing runs once the loop has returned or raised.
C1_Terminates ==
    /\ [](loop_count + Cardinality(debs_remaining)
            <= Cardinality(debs_to_install)
               + (IF pc \in {"while", "returned"} THEN 0 ELSE 1))
    /\ [][pc = "check" =>
            \/ pc' \in Terminal
            \/ Cardinality(debs_remaining') < Cardinality(debs_remaining)]_vars
    /\ [][pc \notin Terminal]_vars

\* C1 witness: the loop has returned after two passes
C1_Witness == pc = "returned" /\ loop_count = 2

C6_Converges ==
    /\ [](loop_count = Len(pass_inputs))
    /\ [](pc = "returned" => debs_remaining = {})
    /\ [][pc = "check" /\ Cardinality(failed_debs) < Cardinality(debs_remaining) =>
            pc' = "while" /\ debs_remaining' = failed_debs]_vars
    /\ [][pc = "while" =>
            IF debs_remaining = {}
               THEN pc' = "returned" /\ pass_inputs' = pass_inputs
               ELSE /\ pc' = "dpkg_install"
                    /\ pass_inputs' = Append(pass_inputs, debs_remaining)]_vars

\* C6 witness: {x.deb, y.deb}, pass 1 fails only y.deb, pass 2 fails nothing:
\* converged after two iterations
C6_Witness ==
    /\ pc = "returned"
    /\ debs_to_install = {Path("x"), Path("y")}
    /\ pass_inputs = <<{Path("x"), Path("y")}, {Path("y")}>>
    /\ failed_debs = {}
    /\ debs_remaining = {}
    /\ loop_count = 2

\* C7: on Converged no artifact of the initial set is left on disk; on
\* Stalled the artifacts of the initial set outside the reported failed set
\* are gone and every artifact of the reported failed set is still on disk.
C7_FilesAtTerminalStates ==
    /\ pc = "returned" => debs_to_install \cap disk = {}
    /\ pc = "PackageInstallationError" =>
           /\ (debs_to_install \ result[1]) \cap disk = {}
           /\ result[1] \subseteq disk

\* C7 witness: the loop made progress, then stalled: one artifact is gone, the
\* failed one is on disk
C7_Witness ==
    /\ pc = "PackageInstallationError"
    /\ loop_count = 2
    /\ debs_to_install \ disk # {}
    /\ result[1] # {}

\* C10: a line of the error list that ends with .deb and names no file makes
\* the parser fail its assertion: the path goes to neither set, and from then
\* on nothing happens: no progress test, no removal, no further pass.
C10_MissingDebAborts ==
    /\ [](violation =>
            /\ pc = "AssertionError"
            /\ result # None
            /\ \A path \in result[1] :
                   /\ endswith_deb(path)
                   /\ path \notin disk
                   /\ path \notin debs \cup packages \cup failed_debs)
    /\ [][violation' =>
            /\ disk' = disk
            /\ debs' = debs /\ packages' = packages
            /\ failed_debs' = failed_debs /\ failed_packages' = failed_packages
            /\ debs_remaining' = debs_remaining
            /\ pass_inputs' = pass_inputs]_vars
    /\ [][pc # "AssertionError"]_vars

\* C10 witness: the error list named an existing archive, then a missing one
C10_Witness ==
    /\ violation
    /\ pc = "AssertionError"
    /\ debs # {}
    /\ debs_remaining \subseteq disk

---------------------------------------------------------------------------
(* Claims on get_dpkg_failures *)

\* the positions of the lines after the first sentinel line
AfterSentinel(errs) ==
    {i \in 1..Len(errs) : \E j \in 1..(i - 1) : is_sentinel(strip(errs[j]))}

\* C8: whatever the parser reports is the text of a line after the first
\* sentinel line, and its assertion can fail on such a line only; a stream
\* without sentinel line yields two empty sets.
C8_NothingBeforeSentinel ==
    parse_done =>
        /\ \A l \in parsed.debs \cup parsed.packages :
               \E i \in AfterSentinel(dpkg_errs) : strip(dpkg_errs[i]) = l
        /\ parsed.raised => AfterSentinel(dpkg_errs) # {}
        /\ (\A i \in 1..Len(dpkg_errs) : ~is_sentinel(strip(dpkg_errs[i]))) =>
               parsed.debs = {} /\ parsed.packages = {} /\ ~parsed.raised

\* C8 witness: a line ending in .deb before the sentinel and another after it:
\* only the second is reported
C8_Witness ==
    /\ parse_done
    /\ dpkg_errs = << <<SP, "x", DEB>>, <<SENTINEL>>, <<SP, "y", DEB>> >>
    /\ parsed.debs = {Path("y")}
    /\ parsed.packages = {}

\* C9: when the parser returns, every line after the first sentinel line is,
\* stripped, in exactly one of the two sets: in debs (and an existing file)
\* if it ends with .deb, in packages otherwise; the two sets are disjoint.
C9_ExactlyOneSet ==
    parse_done /\ ~parsed.raised =>
        /\ \A i \in AfterSentinel(dpkg_errs) :
               LET l == strip(dpkg_errs[i])
               IN  IF endswith_deb(l)
                      THEN l \in parsed.debs /\ l \notin parsed.packages /\ l \in files
                      ELSE l \in parsed.packages /\ l \notin parsed.debs
        /\ parsed.debs \cap parsed.packages = {}

\* C9 witness: sentinel, x.deb, pkgname:amd64 yields ({x.deb}, {pkgname:amd64})
C9_Witness ==
    /\ parse_done
    /\ dpkg_errs = << <<SENTINEL>>, <<SP, "x", DEB>>, <<SP, "pkgname:amd64">> >>
    /\ ~parsed.raised
    /\ parsed.debs = {Path("x")}
    /\ parsed.packages = {<<"pkgname:amd64">>}

---------------------------------------------------------------------------
(* Claims on the stages, install_packages and _fix_dpkg_errors *)

\* the stage has ended with a classification error
ClassificationError == s_pc \in {"RemnantInitramfsHooksError", "PackageNotFoundError"}

\* the stage has ended with the parser's assertion
ParseViolation == pc = "AssertionError" /\ violation

\* C11 as stated: a run of a stage that ends with a classification error or a
\* parse violation has executed no install pass, no configure pass and no
\* artifact fetch before.
C11_AbortsBeforeAnyMutation ==
    ClassificationError \/ ParseViolation => ~mutated /\ loop_count = 0

\* C11 amended: a remnant-hook error ends the stage before any fetch and any
\* pass. An unavailable-target error ends the stage outside install_packages
\* and before the fetch and the passes of the stage's targets: in the first
\* stage no pass has run before it (the qemu debs may have been fetched), in
\* the second stage only the installation of the saved qemu debs may have.
\* A parse violation arises inside a pass, after its install command has run,
\* and nothing follows it: no recovery, no re-marking, no return.
C11_AbortsWhereRaised ==
    /\ s_pc = "RemnantInitramfsHooksError" =>
           ~mutated /\ pc = "idle" /\ i_pc = "idle" /\ ops = {}
    /\ s_pc = "PackageNotFoundError" =>
           /\ pc = "idle" /\ i_pc = "idle" /\ r_pc = "idle"
           /\ entry = "first" => ops = {}
           /\ entry = "second" => (mutated => "apt_mark_auto" \in ops)
           /\ fix_result = None
    /\ violation =>
           /\ pc = "AssertionError"
           /\ loop_count >= 1
           /\ i_pc = "loop"
           /\ s_pc \in {"install_qemu", "install_tools", "install_targets"}
           /\ i_failed = None /\ fix_result = None /\ ops = {}

\* C11 witness: the second stage has installed the saved qemu debs, fetched
\* its targets, and the second pass on them ends with a parse violation
C11_Witness ==
    /\ entry = "second"
    /\ s_pc = "install_targets"
    /\ mutated
    /\ ParseViolation
    /\ loop_count = 2

\* C12 as stated: whenever install_packages is past its loop and the loop
\* returned package names, _fix_dpkg_errors has been called with them.
C12_AlwaysHandsToRecovery ==
    i_pc \in {"remark", "returned"} /\ ListOf(i_failed) # {} => fix_result # None

\* C12 amended: install_packages hands the names the loop returned to
\* _fix_dpkg_errors, before the re-marking and the return, when it is called
\* with fix_broken true (the default: the installation of the second stage's
\* targets); called with fix_broken false (the first stage, the saved qemu
\* debs) it runs no recovery at all and the names are dropped.
C12_HandsToRecoveryIfFixBroken ==
    LET default_call == entry = "second" /\ s_pc = "install_targets"
    IN  /\ i_pc = "fix" =>
               /\ default_call
               /\ r_todo \subseteq ListOf(i_failed)
               /\ r_cur # None => r_cur[1] \in ListOf(i_failed)
               /\ "apt_mark_auto" \notin ops
        /\ i_pc \in {"remark", "returned"} =>
               /\ fix_result # None <=> default_call
               /\ default_call /\ ListOf(i_failed) # {} => "apt_fix" \in ops
               /\ ~default_call => ops \subseteq {"apt_mark_auto"}

\* C12 witness: the second stage's install_packages has returned, the loop had
\* left names and the recovery has run on them
C12_Witness ==
    /\ entry = "second"
    /\ s_pc = "install_targets"
    /\ i_pc = "returned"
    /\ ListOf(i_failed) # {}
    /\ "force_remove" \in ops

\* C13 as stated: whenever the recovery has returned after its removal step,
\* it has run dpkg --configure -a and then apt-get install -f once more, and
\* its result is the success of that last command.
C13_AlwaysFixesAgain ==
    fix_result # None /\ r_codes.apt_fix_1 = Code(1) =>
        /\ "configure_a" \in ops
        /\ "apt_fix_again" \in ops
        /\ fix_result = Some(r_codes.apt_fix_2 = Code(0))

\* C13 amended: after its removal step the recovery always runs
\* dpkg --configure -a; if that succeeds it runs apt-get install -f once more
\* and returns whether that succeeded; if it fails the recovery returns False
\* without running apt-get install -f again.
C13_ReconfiguresThenFixesIfConfigured ==
    /\ r_pc = "configure" => r_codes.apt_fix_1 = Code(1) /\ r_todo = {} /\ r_co = {}
    /\ r_pc = "apt_fix" => r_codes.configure_a = Code(0)
    /\ "apt_fix_again" \in ops => "configure_a" \in ops
    /\ "configure_a" \in ops <=> r_codes.configure_a # None
    /\ "apt_fix_again" \in ops <=> r_codes.apt_fix_2 # None
    /\ fix_result # None /\ r_codes.apt_fix_1 = Code(1) =>
           /\ "configure_a" \in ops
           /\ IF r_codes.configure_a = Code(0)
                 THEN /\ "apt_fix_again" \in ops
                      /\ fix_result = Some(r_codes.apt_fix_2 = Code(0))
                 ELSE /\ "apt_fix_again" \notin ops
                      /\ fix_result = Some(FALSE)

\* C13 witness: a forced removal, then the reconfiguration and the second
\* apt-get install -f both succeeded: the recovery returned True
C13_Witness ==
    /\ "force_remove" \in ops
    /\ r_codes.configure_a = Code(0)
    /\ r_codes.apt_fix_2 = Code(0)
    /\ fix_result = Some(TRUE)

\* C14: once _fix_dpkg_errors has returned False to install_packages, the
\* message is printed, no error ends the run, the re-marking is the next and
\* only thing install_packages does, and it returns to the stage, which ends
\* normally.
C14_RecoveryFailureIsNotFatal ==
    fix_result = Some(FALSE) /\ r_pc = "idle" =>
        /\ "warn_manual" \in ops
        /\ pc = "idle"
        /\ i_pc \in {"remark", "returned", "idle"}
        /\ i_pc = "remark" <=> "apt_mark_auto" \notin ops
        /\ s_pc = IF i_pc = "idle" THEN "done" ELSE "install_targets"

\* C14 witness: the recovery returned False after a failed reconfiguration and
\* the stage has ended normally, the packages re-marked
C14_Witness ==
    /\ fix_result = Some(FALSE)
    /\ r_codes.configure_a = Code(1)
    /\ s_pc = "done"
    /\ "apt_mark_auto" \in ops

\* C15: if the first apt-get install -f exits with 0, the recovery returns True
\* at once: no forced removal, no prerm script removed, no dpkg --configure -a
\* and no second apt-get install -f is ever run by it.
C15_FirstFixSuccessCompletes ==
    r_codes.apt_fix_1 = Code(0) =>
        /\ fix_result = Some(TRUE)
        /\ r_pc \in {"returned", "idle"}
        /\ r_todo = {} /\ r_co = {} /\ r_cur = None
        /\ ops \cap {"force_remove", "rm_prerm", "configure_a", "apt_fix_again",
                     "warn_manual"} = {}
        /\ r_codes.configure_a = None /\ r_codes.apt_fix_2 = None

\* C15 witness: the loop left two names, the first apt-get install -f
\* succeeded and install_packages has returned
C15_Witness ==
    /\ r_codes.apt_fix_1 = Code(0)
    /\ Cardinality(ListOf(i_failed)) = 2
    /\ i_pc = "returned"
    /\ ops = {"apt_fix", "apt_mark_auto"}

---------------------------------------------------------------------------
(* Claims on a pass under tee_process *)

\* C16: tee_process has returned only if the child has exited, and the exit
\* code it returns is the child's exit status; dpkg --configure -a is started
\* only once dpkg -i has exited, and the pass is handed to the loop's
\* judgement only once dpkg --configure -a has exited too.
C16_ReturnsAfterExit ==
    /\ t_pc = "done" =>
           /\ child = "exited"
           /\ exit_status # None
           /\ t_ret.exit_code = exit_status
    /\ p_pc \in {"dpkg_configure", "evaluate"} => p_install_child = "exited"
    /\ p_pc = "evaluate" => child = "exited" /\ t_pc = "done"

\* C16 witness: both commands have written to stderr and exited, the second
\* with status 1, and the pass is up for judgement
C16_Witness ==
    /\ p_pc = "evaluate"
    /\ p_install_child = "exited"
    /\ written["stderr"] # <<>>
    /\ t_ret.exit_code = Code(1)

---------------------------------------------------------------------------
(* Claims on tee_process: absent handles *)

\* C17: when a handle of the process is absent, tee_process returns the empty
\* text for that stream and everything the child wrote for a stream that is
\* a pipe.
C17_AbsentHandleEmptyOtherComplete ==
    t_pc = "done" /\ process_outs # Streams =>
        /\ "stdout" \notin process_outs => t_ret.stdout = <<>>
        /\ "stderr" \notin process_outs => t_ret.stderr = <<>>
        /\ "stdout" \in process_outs => t_ret.stdout = written["stdout"]
        /\ "stderr" \in process_outs => t_ret.stderr = written["stderr"]

---------------------------------------------------------------------------
(* Claims on the target classifier *)

\* the packages dpkg lists under the name n
InstalledAs(n) == {p \in apt_cache : p.shortname = n /\ <<n, p.architecture>> \in fullnames}

\* the names list_first_stage_targets asks for whatever is installed: sudo, and
\* python3 and python3-apt when the crossgrader is not an installed package
AskedByName ==
    {"sudo"} \cup (IF crossgrader.known /\ crossgrader.is_installed
                   THEN {} ELSE FALLBACK_CROSSGRADER_DEPENDENCIES)

\* C18: no package whose installed architecture is 'all' or the target
\* architecture is selected as a stage-1 target: every name the priority, hook,
\* shell and dependency criteria put into targets has a package in dpkg's list
\* whose architecture is neither, a package installed with architecture 'all' or
\* the target one is never in the returned list, and a name installed only so
\* is in it under no name of its own (an important 'all' package included).
C18_AllAndTargetArchNotSelected ==
    (c_done /\ c_out.raised = "none") =>
        /\ \A n \in c_out.targets \ AskedByName :
              \E p \in InstalledAs(n) : OwnerArchitecture(p) \notin {"all", TargetArch}
        /\ \A p \in c_out.packages :
              ~(p.is_installed /\ p.inst_arch \in {"all", TargetArch})
        /\ \A p \in apt_cache :
              (p.is_installed /\ p.inst_arch = "all")
                  => /\ p.shortname \notin c_out.targets
                     /\ p.shortname \notin {q.shortname : q \in c_out.packages}

\* an important package of architecture 'all', whose target variant apt could
\* install, has been classified, and the list returned leaves it out
C18_Witness ==
    /\ c_done
    /\ c_out.raised = "none"
    /\ c_out.packages # {}
    /\ \E p \in apt_cache :
          /\ p.is_installed /\ p.inst_arch = "all" /\ p.priority = "important"
          /\ CacheGet(apt_cache, p.shortname, TargetArch) # {}
          /\ p.shortname \notin {q.shortname : q \in c_out.packages}

\* the hook files on disk that no line of dpkg-query -S gives to a package of
\* the cache
Unattributed ==
    {h \in hook_glob :
        ~\E i \in DOMAIN hook_query :
            /\ hook_query[i].filename = h
            /\ \E j \in DOMAIN hook_query[i].names :
                  CacheGet(apt_cache, hook_query[i].names[j][1],
                           hook_query[i].names[j][2]) # {}}

\* C19: when a hook file on disk is attributed to no package, the classification
\* raises RemnantInitramfsHooksError with exactly the unattributed files and
\* returns no targets, unless ignore_initramfs_remnants is set; it raises it in
\* no other case, whatever the architecture of the packages that own hooks.
C19_RemnantHooksRaise ==
    c_done =>
        IF Unattributed # {} /\ ~ignore_initramfs_remnants
        THEN /\ c_out.raised = "RemnantInitramfsHooksError"
             /\ c_out.hooks = Unattributed
             /\ c_out.packages = {}
             /\ c_out.targets = {}
        ELSE c_out.raised # "RemnantInitramfsHooksError"

\* two hook files on disk, one owned by a package of architecture 'all' or of
\* the target architecture, the other by none: the error carries the other only
C19_Witness ==
    /\ c_done
    /\ c_out.raised = "RemnantInitramfsHooksError"
    /\ hook_glob = {Hook1, Hook2}
    /\ c_out.hooks = {Hook2}
    /\ \E i \in DOMAIN hook_query :
          \E p \in CacheGet(apt_cache, hook_query[i].names[1][1], hook_query[i].names[1][2]) :
              p.is_installed /\ p.inst_arch \in {"all", TargetArch}

\* the wanted names, and those among them with no entry in the target
\* architecture, or with one that is installed
Wanted == {names[i][1] : i \in DOMAIN names}
NotFound == {n \in Wanted : CacheGet(apt_cache, n, TargetArch) = {}}
Satisfied == {n \in Wanted : \E p \in CacheGet(apt_cache, n, TargetArch) : p.is_installed}
Returned == {c_out.packages[i].shortname : i \in DOMAIN c_out.packages}

\* C20 as stated: a wanted name with no target entry raises PackageNotFoundError
\* naming it or is skipped with a report, a wanted name whose target variant is
\* installed is omitted without error, and no other name is omitted.
C20_InstalledOmitted ==
    c_done =>
        IF NotFound # {} /\ ~ignore_unavailable_targets
        THEN /\ c_out.raised = "PackageNotFoundError"
             /\ c_out.package[1] \in NotFound /\ c_out.package[2] = TargetArch
        ELSE /\ c_out.raised = "none"
             /\ c_out.skipped = {<<n, TargetArch>> : n \in NotFound}
             /\ Returned = Wanted \ (NotFound \cup Satisfied)

\* C20, amended: the installed target variants are omitted when ignore_installed
\* is set, and are in the result when it is not.
C20_InstalledOmittedIfIgnored ==
    c_done =>
        IF NotFound # {} /\ ~ignore_unavailable_targets
        THEN /\ c_out.raised = "PackageNotFoundError"
             /\ c_out.package[1] \in NotFound /\ c_out.package[2] = TargetArch
             /\ c_out.packages = <<>>
        ELSE /\ c_out.raised = "none"
             /\ c_out.skipped = {<<n, TargetArch>> : n \in NotFound}
             /\ Returned = Wanted \ (NotFound \cup (IF ignore_installed THEN Satisfied ELSE {}))
             /\ \A i \in DOMAIN c_out.packages :
                   c_out.packages[i] \in CacheGet(apt_cache, c_out.packages[i].shortname,
                                                  TargetArch)

\* ignore_installed and ignore_unavailable_targets set; of three wanted names
\* one has no target entry, one is installed in the target architecture, and
\* one is returned
C20_Witness ==
    /\ c_done
    /\ ignore_installed
    /\ ignore_unavailable_targets
    /\ c_out.raised = "none"
    /\ Len(names) = 3
    /\ NotFound # {}
    /\ Satisfied # {}
    /\ Len(c_out.packages) = 1

\* the names installed in an architecture that is neither 'all' nor the target
\* one, by dpkg's list
ToCrossgrade ==
    {p.shortname : p \in {q \in apt_cache : /\ <<q.shortname, q.architecture>> \in fullnames
                                            /\ q.is_installed
                                            /\ q.inst_arch \notin {"all", TargetArch}}}

\* C21: when every such package has a target-architecture entry, the stage-2
\* target set is exactly the target-architecture variants of the installed
\* packages whose architecture is neither 'all' nor the target one, less the
\* variants that are installed already.
C21_SecondStageSetExact ==
    (c_done /\ \A n \in ToCrossgrade : CacheGet(apt_cache, n, TargetArch) # {}) =>
        /\ c_out.raised = "none"
        /\ c_out.packages =
              {p \in apt_cache : /\ p.shortname \in ToCrossgrade
                                 /\ p.architecture = TargetArch
                                 /\ ~p.is_installed}

\* the list returned has a package and leaves out a name whose target variant is
\* installed beside the current one
C21_Witness ==
    /\ c_done
    /\ c_fn = "second"
    /\ c_out.raised = "none"
    /\ c_out.skipped = {}
    /\ c_out.packages # {}
    /\ \E n \in ToCrossgrade :
          /\ n \notin {p.shortname : p \in c_out.packages}
          /\ \E p \in CacheGet(apt_cache, n, TargetArch) : p.is_installed

---------------------------------------------------------------------------
(* Claims on main() and the stages *)

\* a full name the caller named after -p, with its architecture or without
NamedByCaller(pkg_name) == pkg_name \in args_packages \/ <<pkg_name[1]>> \in args_packages

\* C22: what is handed to dpkg --purge is exactly the packages of dpkg's list
\* whose architecture is the given one, less every package the caller named
\* after -p; no package the caller named and none of another architecture is
\* handed to it.
C22_PurgeSetExact ==
    purged # None =>
        purged[1] = {pkg_name \in fullnames \cup purged[1] :
                        pkg_name[2] = foreign_arch /\ ~NamedByCaller(pkg_name)}

\* the system changes C24 lists: packages installed, configured or purged, debs
\* fetched or deleted
Mutations == {"fetch", "install", "purge", "rmdir"}

\* C24: with --dry-run no step of any stage adds an architecture to dpkg,
\* modifies hook-functions, fetches or deletes a deb, or installs, configures
\* or purges a package.
C24_DryRunChangesNothing ==
    [][args_dry_run =>
          /\ dpkg_archs' = dpkg_archs
          /\ hook_functions' = hook_functions
          /\ purged' = purged
          /\ changed' \cap Mutations = changed \cap Mutations]_vars

---------------------------------------------------------------------------
(* Further claims on the convergence loop, one pass and tee_process *)

\* C25: in each iteration the files deleted are exactly the debs of the pass
\* that are not in failed_debs; that step deletes no failed deb and no file
\* outside debs_remaining, no other step of the loop deletes a file, and the
\* progress test is reached from the deletion only.
C25_DeletesExactlyTheInstalled ==
    [][/\ pc = "remove" => /\ disk' = disk \ (debs_remaining \ failed_debs)
                           /\ pc' \in {"check", "FileNotFoundError"}
       /\ pc # "remove" => disk' = disk
       /\ (pc' = "check" /\ pc # "check") => pc = "remove"]_vars

\* a pass installed one deb and failed another: the first is gone, the failed
\* one is on disk, and the progress test comes next
C25_Witness ==
    /\ pc = "check"
    /\ failed_debs \cap debs_remaining # {}
    /\ debs_remaining \ failed_debs # {}
    /\ (debs_remaining \ failed_debs) \cap disk = {}
    /\ failed_debs \subseteq disk

\* the stripped lines of a stderr that follow its own first sentinel line
EntriesOf(errs) == {strip(errs[i]) : i \in AfterSentinel(errs)}

\* C26: the pass returns the union of what the error list of dpkg -i's stderr
\* and the error list of dpkg --configure -a's stderr name, each list starting
\* after the sentinel line of its own stderr: a sentinel line of the install
\* phase makes no line of the configure phase an entry.
C26_UnionOfIndependentParses ==
    o_pc = "returned" =>
        /\ o_failed_debs = {l \in EntriesOf(errs_install) \cup EntriesOf(errs_configure) :
                               endswith_deb(l)}
        /\ o_failed_packages =
               {l \in EntriesOf(errs_install) \cup EntriesOf(errs_configure) :
                   ~endswith_deb(l)}

\* the install phase listed a package after its sentinel; the configure phase
\* names another package before its own sentinel: the pass returns the first
\* and not the second
C26_Witness ==
    /\ o_pc = "returned"
    /\ errs_install = << <<SENTINEL>>, <<SP, "pkgname:amd64">> >>
    /\ errs_configure = << <<SP, "libfoo:i386">>, <<SENTINEL>> >>
    /\ o_failed_packages = {<<"pkgname:amd64">>}

\* C30: each command of a pass is started with --abort-after = max(50, 2 * n),
\* n the number of debs handed to the pass: the same for dpkg -i and dpkg
\* --configure -a, never below 50, never below twice that number, and one of
\* the two.
C30_AbortAfterCeiling ==
    /\ Len(options) <= 2
    /\ o_pc \in {"installed", "returned"} => Len(options) >= 1
    /\ o_pc = "returned" => Len(options) = 2
    /\ \A i \in DOMAIN options :
          /\ options[i].abort_after >= 50
          /\ options[i].abort_after >= 2 * n_debs
          /\ options[i].abort_after \in {50, 2 * n_debs}
          /\ options[i].abort_after = options[1].abort_after
          /\ options[i].command = IF i = 1 THEN "dpkg -i" ELSE "dpkg --configure -a"

\* a pass over 26 debs has run both commands with --abort-after=52
C30_Witness ==
    /\ o_pc = "returned"
    /\ n_debs = 26
    /\ Len(options) = 2
    /\ options[1].abort_after = 52
    /\ options[2].abort_after = 52

\* s is a prefix of t
IsPrefix(s, t) == Len(s) <= Len(t) /\ \A i \in 1..Len(s) : s[i] = t[i]

\* the bytes of a text
Bytes(s) == {s[i] : i \in 1..Len(s)}

\* C27: at every step of tee_process the text accumulated for a stream is a
\* prefix of what the child has written to that stream, followed exactly by
\* what still sits in the pipe; a byte written to one stream is never in the
\* buffer of the other, and a stream that is no pipe accumulates nothing.
C27_BuffersArePrefixes ==
    \A s \in Streams :
        /\ IsPrefix(output_bufs[s], written[s])
        /\ s \in process_outs => output_bufs[s] \o pipe[s] = written[s]
        /\ s \notin process_outs => output_bufs[s] = <<>>
        /\ \A t \in Streams \ {s} : Bytes(output_bufs[s]) \cap Bytes(written[t]) = {}

\* both streams are pipes, the child wrote to stdout, to stderr and to stdout
\* again, and the parent has read part of each: something is accumulated for
\* both streams while a later byte of stdout is still in the pipe
C27_Witness ==
    /\ process_outs = Streams
    /\ written["stdout"] = <<1, 3>>
    /\ written["stderr"] = <<2>>
    /\ output_bufs["stdout"] = <<1>>
    /\ output_bufs["stderr"] = <<2>>
    /\ pipe["stdout"] = <<3>>

---------------------------------------------------------------------------
(* Claims on the second step of the recovery *)

\* the dpkg --remove --force-depends commands run so far
Removals == {i \in DOMAIN f_log : f_log[i].op = "dpkg --remove"}

\* the entries of f_log the step appends
Appended == {i \in DOMAIN f_log' : i > Len(f_log)}

\* C28, as stated: every package force-removed is another variant (same short
\* name, different full name) of a failed package flagged Multi-Arch: same; no
\* failed package is ever removed; no variant of a failed package that is not
\* flagged is ever removed.
C28_FailedPackageNeverRemoved ==
    \A i \in Removals :
        /\ f_log[i].of \in f_packages
        /\ f_log[i].of[1] \in ma_same
        /\ f_log[i].package[1] = f_log[i].of[1]
        /\ f_log[i].package # f_log[i].of
        /\ f_log[i].package \notin f_packages
        /\ \A p \in f_packages : p[1] \notin ma_same => f_log[i].package[1] # p[1]

\* C28, amended: every package force-removed is, at that moment, listed by
\* dpkg-query and another variant (same short name, different full name) of
\* the failed package the loop is at, which is flagged Multi-Arch: same; that
\* package is not removed while the loop is at it (it is removed if it is a
\* variant of another failed package); no variant of a failed package that is
\* not flagged is ever removed.
C28_OnlyOtherVariantsOfThePackageInHand ==
    [][\A i \in Appended :
          f_log'[i].op = "dpkg --remove" =>
              /\ f_cur # None
              /\ f_log'[i].of = f_cur[1]
              /\ f_cur[1] \in f_packages
              /\ f_cur[1][1] \in ma_same
              /\ f_log'[i].package \in dpkg_db
              /\ f_log'[i].package[1] = f_cur[1][1]
              /\ f_log'[i].package # f_cur[1]
              /\ \A p \in f_packages :
                    p[1] \notin ma_same => f_log'[i].package[1] # p[1]]_vars

\* libfoo:arm64 and pkg:amd64 failed, libfoo is Multi-Arch: same and pkg is
\* not, dpkg lists the other variant of each: the recovery has removed
\* libfoo:amd64 and nothing else
C28_Witness ==
    /\ f_pc = "returned"
    /\ f_packages = {<<"libfoo", TargetArch>>, <<"pkg", CurrentArch>>}
    /\ ma_same = {"libfoo"}
    /\ <<"pkg", TargetArch>> \in dpkg_db
    /\ Len(f_log) = 1
    /\ f_log[1].op = "dpkg --remove"
    /\ f_log[1].package = <<"libfoo", CurrentArch>>
    /\ f_log[1].of = <<"libfoo", TargetArch>>

\* the entry is about the package, and is the command or call op
IsEvent(e, op, package) == e.op = op /\ e.package = package

\* C29: a prerm script is deleted only if the script exists, the forced
\* removal of its package has just failed and the operator answered 'y' (in
\* either case) or nothing; the removal is then run once more, and only once;
\* after any other answer the script stays, and nothing more is done to the
\* package.
C29_PrermDeletedOnlyOnConfirmation ==
    [][/\ \A i \in Appended :
             f_log'[i].op = "os.remove" =>
                 /\ f_log'[i].package \in prerm_scripts
                 /\ f_log'[i].package \notin prerm_scripts'
                 /\ i - 2 \in Appended
                 /\ IsEvent(f_log'[i - 2], "dpkg --remove", f_log'[i].package)
                 /\ f_log'[i - 2].ret # Code(0)
                 /\ IsEvent(f_log'[i - 1], "input", f_log'[i].package)
                 /\ lower(f_log'[i - 1].answer) \in {"y", ""}
                 /\ i + 1 = Len(f_log')
                 /\ IsEvent(f_log'[i + 1], "dpkg --remove", f_log'[i].package)
       /\ \A i \in Appended :
             (f_log'[i].op = "input" /\ lower(f_log'[i].answer) \notin {"y", ""}) =>
                 /\ i = Len(f_log')
                 /\ prerm_scripts' = prerm_scripts
                 /\ dpkg_db' = dpkg_db
       /\ \A i \in Appended :
             (f_log'[i].op = "input" /\ lower(f_log'[i].answer) \in {"y", ""}) =>
                 /\ i + 2 = Len(f_log')
                 /\ f_log'[i + 1].op = "os.remove"
       /\ \A i \in DOMAIN f_log : f_log'[i] = f_log[i]]_vars

\* the forced removal of libfoo:amd64 failed, the operator pressed Enter, the
\* script was deleted and the second removal succeeded; nothing else was run
C29_Witness ==
    /\ f_pc = "returned"
    /\ Len(f_log) = 4
    /\ \A i \in 1..4 : f_log[i].package = <<"libfoo", CurrentArch>>
    /\ f_log[1].op = "dpkg --remove" /\ f_log[1].ret = Code(1)
    /\ f_log[2].op = "input" /\ f_log[2].answer = ""
    /\ f_log[3].op = "os.remove"
    /\ f_log[4].op = "dpkg --remove" /\ f_log[4].ret = Code(0)
    /\ <<"libfoo", CurrentArch>> \notin prerm_scripts

---------------------------------------------------------------------------
(* Further claims on the target classifier *)

\* the packages of dpkg's list that are installed with priority required or
\* important in an architecture that is neither 'all' nor the target one
EssentialForeign ==
    {p \in apt_cache : /\ <<p.shortname, p.architecture>> \in fullnames
                       /\ p.is_installed
                       /\ p.inst_arch \notin {"all", TargetArch}
                       /\ p.priority \in {"required", "important"}}

\* C31: when list_first_stage_targets returns a list, it holds the
\* target-architecture variant of every installed package of priority required
\* or important whose installed architecture is neither 'all' nor the target
\* one, if apt has that variant and it is not installed; a variant that is
\* installed already is left out.
C31_EssentialPackagesAreTargets ==
    (c_done /\ c_fn = "first" /\ c_out.raised = "none") =>
        \A p \in EssentialForeign :
            /\ p.shortname \in c_out.targets
            /\ \A t \in CacheGet(apt_cache, p.shortname, TargetArch) :
                  t \in c_out.packages <=> ~t.is_installed

\* an important package installed in the current architecture only, with a
\* target variant to install, is in the list returned
C31_Witness ==
    /\ c_done
    /\ c_fn = "first"
    /\ c_out.raised = "none"
    /\ \E p \in EssentialForeign :
          /\ p.priority = "important"
          /\ \E t \in CacheGet(apt_cache, p.shortname, TargetArch) :
                ~t.is_installed /\ t \in c_out.packages

\* the dependencies of the crossgrader package that are installed in an
\* architecture that is neither 'all' nor the target one
ForeignDependencies ==
    {n \in crossgrader.dependencies :
        \E p \in apt_cache : /\ p.shortname = n
                             /\ p.is_installed
                             /\ p.inst_arch \notin {"all", TargetArch}}

\* what the classification asks for beside the packages picked by priority,
\* hook or shell
Requested ==
    {"sudo"} \cup (IF ~crossgrader.known \/ ~crossgrader.is_installed
                   THEN {"python3", "python3-apt"}
                   ELSE ForeignDependencies)

\* C32: a classification that gets past the initramfs hooks asks for sudo, and
\* for python3 and python3-apt exactly when the crossgrader package is unknown
\* or not installed; otherwise it asks for the crossgrader's installed
\* dependencies of an architecture that is neither 'all' nor the target one.
\* Each name asked for is looked up in the target architecture: if one has no
\* such variant the call raises PackageNotFoundError, or skips it when
\* unavailable targets are ignored; in a list returned the variant is present
\* unless it is installed already.
C32_SudoAndCrossgraderDependencies ==
    (c_done /\ c_fn = "first" /\ c_out.raised # "RemnantInitramfsHooksError") =>
        /\ Requested \subseteq c_out.targets
        /\ (crossgrader.known /\ crossgrader.is_installed) =>
              c_out.targets \cap {"python3", "python3-apt"} \subseteq ForeignDependencies
        /\ (\E n \in Requested : CacheGet(apt_cache, n, TargetArch) = {}) =>
              IF ignore_unavailable_targets
              THEN c_out.raised = "none"
              ELSE /\ c_out.raised = "PackageNotFoundError"
                   /\ c_out.packages = {}
        /\ c_out.raised = "PackageNotFoundError" =>
              /\ ~ignore_unavailable_targets
              /\ c_out.package[1] \in c_out.targets
              /\ CacheGet(apt_cache, c_out.package[1], TargetArch) = {}
              /\ c_out.package[2] = TargetArch
        /\ c_out.raised = "none" =>
              \A n \in Requested :
                  /\ CacheGet(apt_cache, n, TargetArch) = {} => <<n, TargetArch>> \in c_out.skipped
                  /\ \A t \in CacheGet(apt_cache, n, TargetArch) :
                        t \in c_out.packages <=> ~t.is_installed

\* the crossgrader is known but not installed: python3-apt, which nothing else
\* asks for, is in the list returned, and sudo, crossgraded already, is not
C32_Witness ==
    /\ c_done
    /\ c_fn = "first"
    /\ c_out.raised = "none"
    /\ crossgrader.known
    /\ ~crossgrader.is_installed
    /\ \E t \in c_out.packages : t.shortname = "python3-apt" /\ t.architecture = TargetArch
    /\ \E t \in CacheGet(apt_cache, "sudo", TargetArch) :
          t.is_installed /\ t \notin c_out.packages

\* sudo has no target variant and unavailable targets are not ignored: the
\* call has raised PackageNotFoundError
C32_WitnessUnavailable ==
    /\ c_done
    /\ c_out.raised = "PackageNotFoundError"
    /\ c_out.package = <<"sudo", TargetArch>>

\* the packages of the cache that dpkg-query -S names as owners of a hook file
\* that is on disk
HookOwners ==
    UNION {UNION {CacheGet(apt_cache, hook_query[i].names[j][1], hook_query[i].names[j][2]) :
                      j \in DOMAIN hook_query[i].names} :
               i \in {k \in DOMAIN hook_query : hook_query[k].filename \in hook_glob}}

\* C33: when _get_initramfs_hook_packages returns, its result is exactly the
\* short names of the packages that own a hook file on disk and whose
\* architecture is neither 'all' nor the target one, also when dpkg-query
\* names several owners of one file.
C33_EveryForeignHookOwnerReturned ==
    (c_done /\ c_fn = "hooks" /\ c_out.raised = "none") =>
        c_out.targets =
            {p.shortname : p \in {q \in HookOwners :
                                      OwnerArchitecture(q) \notin {"all", TargetArch}}}

---------------------------------------------------------------------------
(* Further claims on the convergence loop *)

\* the archives the loop has deleted so far
Deleted == (Artifacts \cup {OtherDeb}) \ disk

\* C34: whatever dpkg reports, the artifacts remaining at the start of every
\* iteration are among the initial ones: every pass is given initial artifacts
\* only, and only initial artifacts are deleted.
C34_RemainingWithinInitial ==
    /\ pc = "while" => debs_remaining \subseteq debs_to_install
    /\ \A i \in DOMAIN pass_inputs : pass_inputs[i] \subseteq debs_to_install
    /\ Deleted \subseteq debs_to_install

\* C35: every initial artifact being on disk when the loop starts, and nothing
\* else touching the files, every artifact handed to a pass is on disk when
\* the pass starts: the loop retries no artifact it has deleted.
C35_RemainingOnDisk ==
    /\ pc = "while" => debs_remaining \subseteq disk
    /\ pc \in {"dpkg_install", "dpkg_configure"} =>
          /\ debs_remaining # {}
          /\ pass_inputs[Len(pass_inputs)] = debs_remaining
          /\ debs_remaining \subseteq disk

\* the second pass starts with one of two artifacts, the other deleted after
\* the first pass
C35_Witness ==
    /\ pc = "dpkg_install"
    /\ loop_count = 2
    /\ Cardinality(debs_to_install) = 2
    /\ Cardinality(debs_remaining) = 1
    /\ debs_remaining \subseteq debs_to_install
    /\ debs_to_install \ debs_remaining # {}
    /\ (debs_to_install \ debs_remaining) \cap disk = {}
    /\ debs_remaining \subseteq disk

---------------------------------------------------------------------------
(* Further claims on get_dpkg_failures *)

\* C36: whatever the stream, neither the empty string nor the sentinel text is
\* among the failed package names the parser returns.
C36_NoEmptyNoSentinelName ==
    (parse_done /\ ~parsed.raised) =>
        /\ <<>> \notin parsed.packages
        /\ <<SENTINEL>> \notin parsed.packages

---------------------------------------------------------------------------
(* Further claims on install_packages *)

\* C37: given no artifact, the convergence loop starts no pass, deletes
\* nothing and returns None, raising nothing; _fix_dpkg_errors, if called with
\* that, runs no command and returns True.
C37_NothingToInstall ==
    (i_pc \in {"loop", "fix", "remark", "returned"} /\ debs_to_install = {}) =>
        /\ OtherDeb \in disk
        /\ ops \subseteq {"apt_mark_auto"}
        /\ i_pc = "loop" =>
              /\ pc \in {"while", "returned"}
              /\ loop_count = 0
              /\ pass_inputs = <<>>
              /\ pc = "returned" => result = None
        /\ i_pc # "loop" => i_failed = None
        /\ i_pc = "fix" =>
              /\ r_pc \in {"start", "returned"}
              /\ r_codes = NoCodes
              /\ r_pc = "returned" => fix_result = Some(TRUE)
        /\ (i_pc \in {"remark", "returned"} /\ fix_result # None) =>
              /\ fix_result = Some(TRUE)
              /\ r_codes = NoCodes

\* the second stage fetched no artifact: the loop has returned None at once
\* and _fix_dpkg_errors has returned True without running a command
C37_Witness ==
    /\ entry = "second"
    /\ s_pc = "install_targets"
    /\ i_pc = "fix"
    /\ r_pc = "returned"
    /\ debs_to_install = {}
    /\ i_failed = None
    /\ fix_result = Some(TRUE)
    /\ ops = {}

\* the packages of the artifacts given to install_packages whose short name
\* apt-mark showauto listed when it started
ListedAsAuto ==
    {<<d[1], TargetArch>> : d \in {a \in debs_to_install :
                                       \E pkg \in auto_pkgs_list : pkg[1] = a[1]}}

\* _install_configure_loop has returned to install_packages
LoopReturned == i_pc \in {"fix", "remark", "returned"}

\* install_packages has returned, or an exception has ended it
Ended ==
    \/ i_pc = "returned"
    \/ pc \in {"PackageInstallationError", "AssertionError"}
    \/ r_pc \in {"AssertionError", "CalledProcessError"}

\* after a stall or a parse violation neither the recovery nor apt-mark auto is
\* run, whatever the passes before
NothingAfterLoopError ==
    pc \in {"PackageInstallationError", "AssertionError"} =>
        /\ i_pc = "loop"
        /\ r_pc = "idle"
        /\ ops = {}
        /\ marked = None

\* apt-mark auto is run only once the loop has returned, with the packages of
\* the artifacts listed as auto-installed before the first pass
RemarkedWithListed ==
    /\ marked # None => (i_pc = "returned" /\ marked = Some(ListedAsAuto))
    /\ i_pc = "returned" => marked # None

---------------------------------------------------------------------------
(* create_initramfs_arch_check and remove_initramfs_arch_check, on the      *)
(* contents of hook-functions and of its backup                             *)

\* the lines a file is made of
COPY_EXEC == "copy_exec() {"
MARKER == "# begin arch-check-hook"
FileLines == {COPY_EXEC, MARKER, "x", ""}

\* the longest hook-functions file of the model, in lines
MaxFileLines == 3

\* a file is the lines str.splitlines() gives and whether its last line ends
\* in a newline; without one, the last line is not empty
IsFile(c) == c.nl \/ c.lines = <<>> \/ c.lines[Len(c.lines)] # ""

Files ==
    {c \in [lines : UNION {[1..k -> FileLines] : k \in 0..MaxFileLines}, nl : BOOLEAN] :
        IsFile(c) /\ (c.lines = <<>> => ~c.nl)}

\* file.read().splitlines()
splitlines(c) == c.lines

\* '\n'.join(lines), as the file that holds it
join(lines) ==
    IF lines = <<>> \/ lines = <<"">> THEN [lines |-> <<>>, nl |-> FALSE]
    ELSE IF lines[Len(lines)] = ""
         THEN [lines |-> SubSeq(lines, 1, Len(lines) - 1), nl |-> TRUE]
         ELSE [lines |-> lines, nl |-> FALSE]

\* functions_lines.index('copy_exec() {'), counted from 1; 0 for ValueError
index(lines) ==
    IF \E i \in 1..Len(lines) : lines[i] = COPY_EXEC
    THEN CHOOSE i \in 1..Len(lines) :
             /\ lines[i] = COPY_EXEC
             /\ \A j \in 1..(i - 1) : lines[j] # COPY_EXEC
    ELSE 0

has_marker(lines) == \E i \in 1..Len(lines) : lines[i] = MARKER

\* the lines of arch-check-hook.sh, TARGET_ARCH_PLACEHOLDER replaced
arch_hook_lines == <<MARKER, "arch-test", "# end arch-check-hook">>

\* create_initramfs_arch_check that backs hook-functions up before it looks
\* for the marker
CreateArchCheck_BackupFirst(functions, bk) ==
    IF functions = None
    THEN [functions |-> functions, backup |-> bk, ret |-> FALSE]
    ELSE LET functions_lines == splitlines(functions[1])
             hook_index == index(functions_lines)
         IN IF has_marker(functions_lines)
            THEN [functions |-> functions, backup |-> functions, ret |-> FALSE]
            ELSE IF hook_index = 0
            THEN [functions |-> functions, backup |-> functions, ret |-> FALSE]
            ELSE [functions |->
                      Some(join(SubSeq(functions_lines, 1, hook_index)
                                \o arch_hook_lines
                                \o SubSeq(functions_lines, hook_index + 2,
                                          Len(functions_lines)))),
                  backup |-> functions,
                  ret |-> TRUE]

\* create_initramfs_arch_check: no file, False; the marker among the lines,
\* False; else the file is copied to the backup; no copy_exec line, False;
\* else the hook takes the place of the line after copy_exec
CreateArchCheck(functions, bk) ==
    IF functions = None
    THEN [functions |-> functions, backup |-> bk, ret |-> FALSE]
    ELSE LET functions_lines == splitlines(functions[1])
             hook_index == index(functions_lines)
         IN IF has_marker(functions_lines)
            THEN [functions |-> functions, backup |-> bk, ret |-> FALSE]
            ELSE IF hook_index = 0
            THEN [functions |-> functions, backup |-> functions, ret |-> FALSE]
            ELSE [functions |->
                      Some(join(SubSeq(functions_lines, 1, hook_index)
                                \o arch_hook_lines
                                \o SubSeq(functions_lines, hook_index + 2,
                                          Len(functions_lines)))),
                  backup |-> functions,
                  ret |-> TRUE]

\* remove_initramfs_arch_check: no file, no backup or no marker, False; else
\* the backup is copied over the file and removed
RemoveArchCheck(functions, bk) ==
    IF functions = None \/ bk = None
    THEN [functions |-> functions, backup |-> bk, ret |-> FALSE]
    ELSE IF ~has_marker(splitlines(functions[1]))
    THEN [functions |-> functions, backup |-> bk, ret |-> FALSE]
    ELSE [functions |-> bk, backup |-> None, ret |-> TRUE]

\* hook-functions is any file or none; the storage directory holds no backup,
\* or one that an earlier run wrote
FileInit ==
    /\ functions_file \in {None} \cup {Some(c) : c \in Files}
    /\ backup_file \in {None} \cup {Some(c) : c \in {f \in Files : f.lines = <<"x">>}}
    /\ hook_series = None
    /\ hook_last = None
    /\ IdleTee
    /\ IdleParser
    /\ IdleLoop
    /\ IdleStage
    /\ IdlePass
    /\ IdleCls
    /\ IdleMain
    /\ IdleOne
    /\ IdleRecover
    /\ IdleMark

CreateHook ==
    LET r == CreateArchCheck(functions_file, backup_file)
    IN /\ functions_file' = r.functions
       /\ backup_file' = r.backup
       /\ hook_series' =
              IF hook_series = None
              THEN Some([before |-> functions_file, first |-> r.ret, calls |-> 1])
              ELSE Some([hook_series[1] EXCEPT !.calls = 2])
       /\ hook_last' = Some([fn |-> "create", functions |-> functions_file,
                             backup |-> backup_file, ret |-> r.ret,
                             series |-> hook_series])
       /\ UNCHANGED <<tee_vars, parser_vars, loop_vars, stage_vars, pass_vars, cls_vars,
                      main_vars, one_vars, recover_vars, mark_vars>>

RemoveHook ==
    LET r == RemoveArchCheck(functions_file, backup_file)
    IN /\ functions_file' = r.functions
       /\ backup_file' = r.backup
       /\ hook_series' = None
       /\ hook_last' = Some([fn |-> "remove", functions |-> functions_file,
                             backup |-> backup_file, ret |-> r.ret,
                             series |-> hook_series])
       /\ UNCHANGED <<tee_vars, parser_vars, loop_vars, stage_vars, pass_vars, cls_vars,
                      main_vars, one_vars, recover_vars, mark_vars>>

FileNext ==
    \/ CreateHook
    \/ RemoveHook

SpecFile == FileInit /\ [][FileNext]_vars

---------------------------------------------------------------------------
(* Claims on the arch check hook *)

\* the last call was a remove that followed one or more consecutive creates,
\* the first of which installed the hook
RemovedAfterInstall ==
    /\ hook_last # None
    /\ hook_last[1].fn = "remove"
    /\ hook_last[1].series # None
    /\ hook_last[1].series[1].first

\* the last call was a create that found the marker in hook-functions
CreatedOnMarker ==
    /\ hook_last # None
    /\ hook_last[1].fn = "create"
    /\ hook_last[1].functions # None
    /\ has_marker(splitlines(hook_last[1].functions[1]))

\* C39: after one or more consecutive create_initramfs_arch_check calls, the
\* first of which installed the hook, and a remove_initramfs_arch_check,
\* hook-functions holds exactly what it held before the first create and the
\* backup is gone; a create that finds the marker changes neither
\* hook-functions nor the backup; the backup never holds the marker.
C39_HookRoundTrip ==
    /\ RemovedAfterInstall =>
          /\ hook_last[1].ret
          /\ functions_file = hook_last[1].series[1].before
          /\ backup_file = None
    /\ CreatedOnMarker =>
          /\ ~hook_last[1].ret
          /\ functions_file = hook_last[1].functions
          /\ backup_file = hook_last[1].backup
    /\ backup_file # None => ~has_marker(splitlines(backup_file[1]))

\* hook-functions ended in a newline and held a line after copy_exec, which
\* the hook replaced; after two creates and a remove it holds them again
C39_Witness ==
    /\ RemovedAfterInstall
    /\ hook_last[1].series[1].calls = 2
    /\ hook_last[1].backup # None
    /\ has_marker(splitlines(hook_last[1].functions[1]))
    /\ functions_file = Some([lines |-> <<"x", COPY_EXEC, "x">>, nl |-> TRUE])
    /\ backup_file = None

===========================================================================
